---------------------------- MODULE Spec2Model ----------------------------
(***************************************************************************)
(* A state-machine model of the vega-protocol workflow orchestrator:       *)
(*   - BudgetManager          (src/unnamed/part_008, lines 250-398)        *)
(*   - WorkflowScheduler      (src/unnamed/part_001, lines 566-719)        *)
(*   - WorkflowValidator      (src/unnamed/part_001, lines 730-930)        *)
(*   - WorkflowExecutionEngine(src/src/execution/execution-engine...ts)    *)
(*   - PaymentAwareClient     (src/unnamed/part_007, lines 139-402)        *)
(*   - PaymentEnabledWorkflowExecutor.executeNode (src/unnamed/part_016)   *)
(*                                                                         *)
(* Money: the source keeps amounts as decimal strings and computes with    *)
(* parseFloat / Number.toString.  On the non-negative integers used here   *)
(* (far below 2^53) both conversions are exact, so an amount is modelled   *)
(* by the integer its string denotes.                                      *)
(*                                                                         *)
(* Async functions: the body of an async function runs synchronously up    *)
(* to its first await; every await (also of an already resolved promise)   *)
(* suspends the caller, and other calls may run before it resumes.  Each   *)
(* await of the BudgetManager is therefore a step boundary of a call.      *)
(***************************************************************************)
EXTENDS Integers, Sequences, FiniteSets, TLC

(***************************************************************************)
(* Bounds of the model.                                                    *)
(***************************************************************************)
\* Largest balance a wallet is funded with before the calls start.
MaxBalance == 2
\* Largest amount of one reserve / addFunds / maxBudget.
MaxAmount == 2
\* Number of concurrently running BudgetManager calls.
NumCallers == 2
Wallets == {"w1", "w2"}
\* The run ids (uuid strings) that occur.
RunIds == {"r1", "r2"}
Callers == 1..NumCallers
Amounts == 1..MaxAmount

VARIABLES
  \* BudgetManager.walletBalances (one token): wallet -> balance
  walletBalances,
  \* BudgetManager.reservations: runId -> reservation (status "none": no entry)
  reservations,
  \* the BudgetManager calls in flight: caller -> position and locals
  calls,
  \* the balance of each wallet when the calls started
  startBalance,
  \* WorkflowScheduler.runs: runId -> run (status "none": no entry)
  runs,
  \* WorkflowScheduler.queue: the queued run ids, oldest first
  queue,
  \* the value `new Date()` returns now
  clock,
  \* how often cancelRun invoked releaseBudget for each run id
  releaseCount,
  \* the most recent call of the public API and how it ended
  lastCall,
  \* AgentRegistry.agents: ref -> agent definition (status "none": no entry)
  agents,
  \* the WorkflowSpec handed to validate / executeRun
  wf,
  \* what validate(wf) did: "pending", "ok" or "error", and whether
  \* validateGraph logged its cycle warning
  validation,
  \* what getExecutionOrder(wf) did: "pending", "ok" or "error", and the order
  ordering,
  \* the executeRun call: where it is suspended, the run it executes, the
  \* computed order, the position in it, the current nodeRun's retryCount
  \* and the agent getAgent resolved
  exec,
  \* what executeRun wrote to the WorkflowRun object it was handed
  \* (status "none": nothing yet)
  heldRun,
  \* executeRun's context: node id -> stored output (0: no entry)
  context,
  \* node id -> number of callAgentWithInputs calls made for it
  invocations,
  \* PaymentEnabledWorkflowExecutor.executeNode for one node: its config, the
  \* attempt counter and where the PaymentAwareClient call is suspended
  pay,
  \* the USDC contract as the payer sees it: balance and transfers executed
  chain,
  \* requests of the node so far: unpaid sends, signatures, paid sends
  sends,
  \* X402PaymentMiddleware.execute for agent "upper": where the call is and
  \* the message it was given
  mw,
  \* one TemplateResolver.resolve call: its template and context, whether it
  \* has returned, and the value it returned
  tr,
  \* one extractPaymentRequirements call made by sendMessage: the error of
  \* the response, whether the call has returned, and what it returned
  extraction,
  \* A2AAgentCaller.clients: cardUrl -> A2AClient (0: no entry); a client is
  \* identified by its number in the order of construction
  clients,
  \* the getClient calls: caller -> position, cardUrl and client returned
  clientCalls,
  \* how many A2AClient objects fromCardUrl has constructed
  created,
  \* WorkflowParser.validate(wf) and the executors' topologicalSort of wf:
  \* what each did ("pending": not called), and the orders returned
  parsing

ledgerVars == <<walletBalances, reservations>>
callVars == <<calls, startBalance>>
schedVars == <<runs, queue, clock, releaseCount>>
\* everything that is not the BudgetManager or a call of it in flight
wfVars == <<agents, wf, validation, ordering>>
engineVars == <<exec, heldRun, context, invocations>>
payVars == <<pay, chain, sends>>
mwVars == <<mw>>
utilVars == <<tr, extraction, clients, clientCalls, created, parsing>>
cacheVars == <<clients, clientCalls, created>>
outsideWf == <<ledgerVars, callVars, schedVars, lastCall, engineVars, payVars,
               mwVars, utilVars>>
outsideLedger ==
  <<schedVars, lastCall, wfVars, engineVars, payVars, mwVars, utilVars>>
\* what executeRun leaves alone besides its context and counters
outsideEngine == <<ledgerVars, callVars, queue, clock, releaseCount, lastCall,
                   wfVars, payVars, mwVars, utilVars>>
outsidePay == <<ledgerVars, callVars, schedVars, lastCall, wfVars, engineVars,
                mwVars, utilVars>>
\* everything that is not the scheduler, the BudgetManager or lastCall
outsideSched == <<callVars, wfVars, engineVars, payVars, mwVars, utilVars>>
\* everything but the middleware call
outsideMw == <<ledgerVars, callVars, schedVars, lastCall, wfVars, engineVars,
               payVars, utilVars>>

(***************************************************************************)
(* Faulty variants.  Each differs from the operator of the model it is     *)
(* named after the way a plausible defect would; the properties below are  *)
(* expected to tell the model from every one of them.                      *)
(***************************************************************************)
\* reserveBudget that forgets the debit.
ReserveBalancesNoDebit(wb, wallet, balanceNum, amountNum) == wb

\* releaseBudget that refunds the whole amount whatever was spent.
RefundAmountIgnoresSpent(reservation, spent) == reservation.amount

\* cancelRun that leaves the queue alone.
RemoveFirstKeepsQueue(q, runId) == q

\* reserveBudget without its balance check.
ReserveRejectsNever(balanceNum, amountNum) == FALSE

\* A terminal test that forgets 'cancelled'.
IsTerminalWithoutCancelled(status) == status \in {"completed", "failed"}

\* getNextRun that takes the newest id instead of the oldest.
NextRunOfNewest(q) ==
  IF Len(q) = 0 THEN [run |-> "", queue |-> q]
  ELSE [run |-> q[Len(q)], queue |-> SubSeq(q, 1, Len(q) - 1)]

(***************************************************************************)
(* BudgetManager: the pieces of each method between two awaits.            *)
(***************************************************************************)
NoReservation == [status |-> "none", userWallet |-> "", amount |-> 0]

\* getBalance(wallet, token): the stored balance, '0' for an unknown wallet.
GetBalance(wb, wallet) == IF wallet \in DOMAIN wb THEN wb[wallet] ELSE 0

\* updateBalance(wallet, token, amount): overwrite the stored balance.
UpdateBalance(wb, wallet, amount) == [wb EXCEPT ![wallet] = amount]

\* reserveBudget's guard: `if (balanceNum < amountNum) throw InsufficientBudgetError`.
ReserveRejects(balanceNum, amountNum) == balanceNum < amountNum

\* reserveBudget's new reservation record.
NewReservation(wallet, amount) ==
  [status |-> "reserved", userWallet |-> wallet, amount |-> amount]

\* reserveBudget after `await getBalance`, given the balance it read:
\* reservations.set(runId, ...) and updateBalance(balanceNum - amountNum).
\* There is no check for an existing reservation under runId.
ReserveReservations(res, runId, wallet, amount) ==
  [res EXCEPT ![runId] = NewReservation(wallet, amount)]

ReserveBalances(wb, wallet, balanceNum, amountNum) ==
  UpdateBalance(wb, wallet, balanceNum - amountNum)

\* releaseBudget: refundAmount = reservedAmount - spent.
RefundAmount(reservation, spent) == reservation.amount - spent

\* releaseBudget, `reservation.status = 'released'; reservations.set(...)`.
MarkReleased(res, runId, reservation) ==
  [res EXCEPT ![runId] = [reservation EXCEPT !.status = "released"]]

\* settleBudget, `reservation.status = 'settled'; reservations.set(...)`.
MarkSettled(res, runId, reservation) ==
  [res EXCEPT ![runId] = [reservation EXCEPT !.status = "settled"]]

(***************************************************************************)
(* Concurrent BudgetManager calls.  A call is idle, suspended at an await  *)
(* with its locals, or finished ("resolved" / "rejected").                 *)
(***************************************************************************)
IdleCall ==
  [pc |-> "idle", op |-> "none", runId |-> "", wallet |-> "", amount |-> 0,
   balance |-> 0, reservation |-> NoReservation]

\* reserveBudget up to `await this.getBalance(...)`: getBalance's body has
\* run, so the balance is read here and delivered when the call resumes.
ReserveCall(c, runId, wallet, amount) ==
  /\ calls[c].pc = "idle"
  /\ calls' = [calls EXCEPT ![c] =
        [pc |-> "reserveGotBalance", op |-> "reserve", runId |-> runId,
         wallet |-> wallet, amount |-> amount,
         balance |-> GetBalance(walletBalances, wallet),
         reservation |-> NoReservation]]
  /\ UNCHANGED <<ledgerVars, startBalance, outsideLedger>>

\* reserveBudget resumes with the balance it read: the check, the
\* reservation and the debit (updateBalance's body runs synchronously).
ReserveResume(c) ==
  /\ calls[c].pc = "reserveGotBalance"
  /\ IF ReserveRejects(calls[c].balance, calls[c].amount)
       THEN /\ calls' = [calls EXCEPT ![c].pc = "rejected"]
            /\ UNCHANGED <<walletBalances, reservations>>
       ELSE /\ reservations' = ReserveReservations(reservations, calls[c].runId,
                                  calls[c].wallet, calls[c].amount)
            /\ walletBalances' = ReserveBalances(walletBalances, calls[c].wallet,
                                    calls[c].balance, calls[c].amount)
            /\ calls' = [calls EXCEPT ![c].pc = "reserveUpdated"]
  /\ UNCHANGED <<startBalance, outsideLedger>>

\* reserveBudget resumes after `await this.updateBalance(...)` and returns.
ReserveReturn(c) ==
  /\ calls[c].pc = "reserveUpdated"
  /\ calls' = [calls EXCEPT ![c].pc = "resolved"]
  /\ UNCHANGED <<ledgerVars, startBalance, outsideLedger>>

\* releaseBudget(runId, spentAmount) up to its first await: an unknown run
\* throws; with nothing to refund the reservation is marked released at
\* once; otherwise getBalance's body has run and the call waits for it.
ReleaseCall(c, runId, spent) ==
  LET reservation == reservations[runId]
      refundAmount == RefundAmount(reservation, spent)
      call == [pc |-> "rejected", op |-> "release", runId |-> runId,
               wallet |-> reservation.userWallet, amount |-> refundAmount,
               balance |-> 0, reservation |-> reservation]
  IN /\ calls[c].pc = "idle"
     /\ IF reservation.status = "none"
          THEN /\ calls' = [calls EXCEPT ![c] = call]
               /\ UNCHANGED reservations
        ELSE IF refundAmount > 0
          THEN /\ calls' = [calls EXCEPT ![c] =
                    [call EXCEPT !.pc = "releaseGotBalance",
                                 !.balance = GetBalance(walletBalances,
                                                        reservation.userWallet)]]
               /\ UNCHANGED reservations
        ELSE /\ calls' = [calls EXCEPT ![c] = [call EXCEPT !.pc = "resolved"]]
             /\ reservations' = MarkReleased(reservations, runId, reservation)
     /\ UNCHANGED <<walletBalances, startBalance, outsideLedger>>

\* releaseBudget resumes with the balance it read and calls updateBalance
\* with currentBalance + refundAmount.
ReleaseResume(c) ==
  /\ calls[c].pc = "releaseGotBalance"
  /\ walletBalances' = UpdateBalance(walletBalances, calls[c].wallet,
                                     calls[c].balance + calls[c].amount)
  /\ calls' = [calls EXCEPT ![c].pc = "releaseUpdated"]
  /\ UNCHANGED <<reservations, startBalance, outsideLedger>>

\* releaseBudget resumes after `await this.updateBalance(...)`: the
\* reservation object it fetched is marked released and stored.
ReleaseReturn(c) ==
  /\ calls[c].pc = "releaseUpdated"
  /\ reservations' = MarkReleased(reservations, calls[c].runId, calls[c].reservation)
  /\ calls' = [calls EXCEPT ![c].pc = "resolved"]
  /\ UNCHANGED <<walletBalances, startBalance, outsideLedger>>

\* settleBudget(runId): it has no await and runs in one piece.
SettleCall(c, runId) ==
  LET reservation == reservations[runId]
      found == reservation.status # "none"
  IN /\ calls[c].pc = "idle"
     /\ calls' = [calls EXCEPT ![c] =
          [IdleCall EXCEPT !.pc = IF found THEN "resolved" ELSE "rejected",
                           !.op = "settle", !.runId = runId]]
     /\ reservations' = IF found THEN MarkSettled(reservations, runId, reservation)
                        ELSE reservations
     /\ UNCHANGED <<walletBalances, startBalance, outsideLedger>>

\* addFunds(wallet, token, amount) up to `await this.getBalance(...)`.
AddFundsCall(c, wallet, amount) ==
  /\ calls[c].pc = "idle"
  /\ calls' = [calls EXCEPT ![c] =
        [IdleCall EXCEPT !.pc = "addGotBalance", !.op = "addFunds",
                         !.wallet = wallet, !.amount = amount,
                         !.balance = GetBalance(walletBalances, wallet)]]
  /\ UNCHANGED <<ledgerVars, startBalance, outsideLedger>>

\* addFunds resumes with the balance it read and calls updateBalance with
\* currentBalance + amount.
AddFundsResume(c) ==
  /\ calls[c].pc = "addGotBalance"
  /\ walletBalances' = UpdateBalance(walletBalances, calls[c].wallet,
                                     calls[c].balance + calls[c].amount)
  /\ calls' = [calls EXCEPT ![c].pc = "addUpdated"]
  /\ UNCHANGED <<reservations, startBalance, outsideLedger>>

\* addFunds resumes after `await this.updateBalance(...)` and returns.
AddFundsReturn(c) ==
  /\ calls[c].pc = "addUpdated"
  /\ calls' = [calls EXCEPT ![c].pc = "resolved"]
  /\ UNCHANGED <<ledgerVars, startBalance, outsideLedger>>

(***************************************************************************)
(* BudgetManager methods run to completion (the caller awaits each call    *)
(* before it makes the next).  Each yields the new balances and            *)
(* reservations and whether it returned (ok) or threw.                     *)
(***************************************************************************)
Outcome(ok, error, wb, res) == [ok |-> ok, error |-> error, wb |-> wb, res |-> res]

\* reserveBudget({runId, userWallet, amount})
ReserveBudget(wb, res, runId, wallet, amount) ==
  LET balanceNum == GetBalance(wb, wallet)
  IN IF ReserveRejects(balanceNum, amount)
       THEN Outcome(FALSE, "InsufficientBudgetError", wb, res)
       ELSE Outcome(TRUE, "",
                    ReserveBalances(wb, wallet, balanceNum, amount),
                    ReserveReservations(res, runId, wallet, amount))

\* releaseBudget(runId, spentAmount); spentAmount undefined is spent = 0.
\* The reservation's status is not looked at.
ReleaseBudget(wb, res, runId, spent) ==
  LET reservation == res[runId]
  IN IF reservation.status = "none"
       THEN Outcome(FALSE, "PaymentError", wb, res)
       ELSE LET refundAmount == RefundAmount(reservation, spent)
                currentBalance == GetBalance(wb, reservation.userWallet)
            IN Outcome(TRUE, "",
                 IF refundAmount > 0
                   THEN UpdateBalance(wb, reservation.userWallet,
                                      currentBalance + refundAmount)
                   ELSE wb,
                 MarkReleased(res, runId, reservation))

\* settleBudget(runId)
SettleBudget(wb, res, runId) ==
  LET reservation == res[runId]
  IN IF reservation.status = "none"
       THEN Outcome(FALSE, "PaymentError", wb, res)
       ELSE Outcome(TRUE, "", wb, MarkSettled(res, runId, reservation))

\* addFunds(wallet, token, amount)
AddFunds(wb, res, wallet, amount) ==
  Outcome(TRUE, "", UpdateBalance(wb, wallet, GetBalance(wb, wallet) + amount), res)

(***************************************************************************)
(* LedgerSpec: reserveBudget, releaseBudget and settleBudget called one    *)
(* after the other with any arguments, on wallets funded beforehand.       *)
(***************************************************************************)
\* How a public call ended: it returned (ok) or threw the named error; `run`
\* is the run id a scheduler call was about or returned, or the agent ref a
\* registry call was about ("": none).
CallResult(op, error, run) ==
  [op |-> op, ok |-> error = "", error |-> error, run |-> run]

NoCall == CallResult("none", "", "")

\* Balances are capped so that repeated refunds and addFunds stay finite.
BalanceCap == MaxBalance + MaxAmount

WithinCap(wb) == \A w \in Wallets : wb[w] <= BalanceCap

LedgerApply(op, o) ==
  /\ WithinCap(o.wb)
  /\ walletBalances' = o.wb
  /\ reservations' = o.res
  /\ lastCall' = CallResult(op, o.error, "")
  /\ UNCHANGED <<schedVars, callVars, wfVars, engineVars, payVars, mwVars,
                 utilVars>>

LedgerReserve(runId, wallet, amount) ==
  LedgerApply("reserve",
              ReserveBudget(walletBalances, reservations, runId, wallet, amount))

LedgerRelease(runId, spent) ==
  LedgerApply("release",
              ReleaseBudget(walletBalances, reservations, runId, spent))

LedgerSettle(runId) ==
  LedgerApply("settle", SettleBudget(walletBalances, reservations, runId))

LedgerAddFunds(wallet, amount) ==
  LedgerApply("addFunds", AddFunds(walletBalances, reservations, wallet, amount))

(***************************************************************************)
(* WorkflowScheduler.  Its methods are called one after the other; each    *)
(* action is one whole call, the BudgetManager call inside it included.    *)
(***************************************************************************)
RunStatuses == {"queued", "running", "completed", "failed", "cancelled"}

\* ['completed', 'failed', 'cancelled'].includes(status)
IsTerminal(status) == status \in {"completed", "failed", "cancelled"}

\* uuidv4(): an id no run was stored under.
FreshRunIds == {id \in RunIds : runs[id].status = "none" /\ reservations[id].status = "none"}

\* The run object scheduleRun creates, stores and returns.  `original` says
\* that the map entry is still that object and not a later copy.
NewRun(wallet, maxBudget) ==
  [status |-> "queued", userWallet |-> wallet, reservedBudget |-> maxBudget,
   spentBudget |-> 0, startedAt |-> 0, endedAt |-> 0, original |-> TRUE]

\* scheduleRun({workflowSpec, userWallet}): reserve workflowSpec.maxBudget,
\* store the run, push its id.  Any error of reserveBudget is rethrown as
\* WorkflowValidationError before the run is stored.
ScheduleRun(wallet, maxBudget) ==
  /\ FreshRunIds # {}
  /\ LET id == CHOOSE x \in FreshRunIds : TRUE
         o == ReserveBudget(walletBalances, reservations, id, wallet, maxBudget)
     IN IF o.ok
          THEN /\ walletBalances' = o.wb
               /\ reservations' = o.res
               /\ runs' = [runs EXCEPT ![id] = NewRun(wallet, maxBudget)]
               /\ queue' = Append(queue, id)
               /\ lastCall' = CallResult("schedule", "", id)
          ELSE /\ lastCall' = CallResult("schedule", "WorkflowValidationError", "")
               /\ UNCHANGED <<ledgerVars, runs, queue>>
  /\ UNCHANGED <<clock, releaseCount, outsideSched>>

\* getNextRun(): shift ids off the queue until one names a stored run;
\* null (here "") when the queue runs empty.
RECURSIVE NextRunOf(_)
NextRunOf(q) ==
  IF Len(q) = 0 THEN [run |-> "", queue |-> q]
  ELSE IF runs[Head(q)].status = "none" THEN NextRunOf(Tail(q))
  ELSE [run |-> Head(q), queue |-> Tail(q)]

GetNextRun ==
  /\ queue' = NextRunOf(queue).queue
  /\ lastCall' = CallResult("next", "", NextRunOf(queue).run)
  /\ UNCHANGED <<ledgerVars, runs, clock, releaseCount, outsideSched>>

\* The `updates` argument of updateRunStatus: the fields it carries.
NoUpdates == [has |-> {}, startedAt |-> 0, endedAt |-> 0]

UpdatesNow ==
  {NoUpdates, [has |-> {"endedAt"}, startedAt |-> 0, endedAt |-> clock]}

\* updateRunStatus's new record: the copy {...run, ...updates, status}, then
\* startedAt / endedAt are stamped if the new status asks for it and the
\* field is still unset.  The old status is not looked at.
UpdatedRun(run, status, updates) ==
  LET merged == [run EXCEPT
                   !.startedAt = IF "startedAt" \in updates.has
                                   THEN updates.startedAt ELSE @,
                   !.endedAt = IF "endedAt" \in updates.has
                                 THEN updates.endedAt ELSE @,
                   !.status = status,
                   !.original = FALSE]
  IN IF status = "running" /\ merged.startedAt = 0
       THEN [merged EXCEPT !.startedAt = clock]
     ELSE IF IsTerminal(status) /\ merged.endedAt = 0
       THEN [merged EXCEPT !.endedAt = clock]
     ELSE merged

UpdateRunStatus(runId, status, updates) ==
  /\ IF runs[runId].status = "none"
       THEN /\ lastCall' = CallResult("updateStatus", "WorkflowValidationError", runId)
            /\ UNCHANGED runs
       ELSE /\ runs' = [runs EXCEPT ![runId] = UpdatedRun(runs[runId], status, updates)]
            /\ lastCall' = CallResult("updateStatus", "", runId)
  /\ UNCHANGED <<ledgerVars, queue, clock, releaseCount, outsideSched>>

\* queue.indexOf(runId) / queue.splice(index, 1): drop the first occurrence.
RECURSIVE RemoveFirst(_, _)
RemoveFirst(q, runId) ==
  IF Len(q) = 0 THEN q
  ELSE IF Head(q) = runId THEN Tail(q)
  ELSE <<Head(q)>> \o RemoveFirst(Tail(q), runId)

\* Repeated refunds of one run are followed up to this many releases.
MaxReleases == 2

\* cancelRun(runId): throw for an unknown or terminal run; otherwise drop
\* the id from the queue, releaseBudget(runId) with no spent amount, and
\* updateRunStatus(runId, 'cancelled').
CancelRun(runId) ==
  /\ IF runs[runId].status = "none" \/ IsTerminal(runs[runId].status)
       THEN /\ lastCall' = CallResult("cancel", "WorkflowValidationError", runId)
            /\ UNCHANGED <<ledgerVars, runs, queue, releaseCount>>
       ELSE LET o == ReleaseBudget(walletBalances, reservations, runId, 0)
            IN /\ releaseCount[runId] < MaxReleases
               /\ WithinCap(o.wb)
               /\ queue' = RemoveFirst(queue, runId)
               /\ releaseCount' = [releaseCount EXCEPT ![runId] = @ + 1]
               /\ walletBalances' = o.wb
               /\ reservations' = o.res
               /\ IF o.ok
                    THEN /\ runs' = [runs EXCEPT ![runId] =
                                       UpdatedRun(runs[runId], "cancelled", NoUpdates)]
                         /\ lastCall' = CallResult("cancel", "", runId)
                    ELSE /\ lastCall' = CallResult("cancel", o.error, runId)
                         /\ UNCHANGED runs
  /\ UNCHANGED <<clock, outsideSched>>

\* Time passes between two calls.
MaxClock == 2

Tick ==
  /\ clock < MaxClock
  /\ clock' = clock + 1
  /\ UNCHANGED <<ledgerVars, runs, queue, releaseCount, lastCall, outsideSched>>

(***************************************************************************)
(* Workflow specs.  A spec holds its nodes and edges as arrays; a node     *)
(* carries its id, type, agentRef ("" when absent) and the maxAttempts of  *)
(* its retryPolicy (0: no retryPolicy).                                    *)
(***************************************************************************)
NodeIds == {"a", "b", "c"}
AgentRefs == {"echo", "upper"}
Chain == "base"
Token == "USDC"

AgentNode(id, ref, maxAttempts) ==
  [id |-> id, type |-> "agent", agentRef |-> ref, maxAttempts |-> maxAttempts]

NoWorkflow ==
  [name |-> "", nodes |-> <<>>, edges |-> <<>>, entryNodeId |-> "",
   maxBudget |-> 0, chain |-> Chain, token |-> Token]

\* spec.nodes.map(n => n.id)
RECURSIVE IdsOf(_)
IdsOf(nodes) ==
  IF Len(nodes) = 0 THEN <<>> ELSE <<Head(nodes).id>> \o IdsOf(Tail(nodes))

SeqToSet(sq) == {sq[i] : i \in 1..Len(sq)}

\* adjacencyList.get(nodeId) || []: the targets of nodeId's edges, in edge order.
RECURSIVE Neighbors(_, _)
Neighbors(edges, nodeId) ==
  IF Len(edges) = 0 THEN <<>>
  ELSE (IF Head(edges).from = nodeId THEN <<Head(edges).to>> ELSE <<>>)
         \o Neighbors(Tail(edges), nodeId)

(***************************************************************************)
(* AgentRegistry, as far as the validator and the engine read it.          *)
(***************************************************************************)
NoAgent ==
  [ref |-> "", status |-> "none", endpointType |-> "http", endpointUrl |-> FALSE,
   supportedChains |-> {}, supportedTokens |-> {}, amount |-> 0,
   requiresPayment |-> FALSE]

\* A registry whose agents were created and published with an endpoint.
PublishedRegistry ==
  [ref \in AgentRefs |->
     [ref |-> ref, status |-> "published", endpointType |-> "http",
      endpointUrl |-> TRUE, supportedChains |-> {Chain},
      supportedTokens |-> {Token}, amount |-> 1, requiresPayment |-> FALSE]]

\* The same registry with pricing.requiresPayment set for agent "upper" and
\* the highest price for agent "echo".
PaywalledRegistry ==
  [PublishedRegistry EXCEPT !["upper"].requiresPayment = TRUE,
                            !["echo"].amount = MaxAmount]

(***************************************************************************)
(* AgentRegistry.  Of an agent definition the model keeps what the         *)
(* registry and its readers look at; name, version and price are present.  *)
(* The Map `agents` is a function on AgentRefs whose absent keys hold       *)
(* NoAgent.                                                                *)
(***************************************************************************)
outsideRegistry ==
  <<ledgerVars, callVars, schedVars, wf, validation, ordering, engineVars,
    payVars, mwVars, utilVars>>

AgentStatuses == {"draft", "published", "deprecated", "suspended"}
EndpointTypes == {"http", "native"}

\* validateAgent(agent) for a definition with name, version and price: it
\* needs a ref, an endpointUrl if it is a published HTTP agent, a chain and
\* a token.
ValidateAgent(agent) ==
  /\ agent.ref # ""
  /\ ~(agent.endpointType = "http" /\ agent.status = "published"
         /\ ~agent.endpointUrl)
  /\ agent.supportedChains # {}
  /\ agent.supportedTokens # {}

\* The AgentDefinition handed to createAgent.
AgentInputs ==
  [ref : AgentRefs, status : {"draft", "published"}, endpointType : EndpointTypes,
   endpointUrl : BOOLEAN, supportedChains : {{Chain}, {}},
   supportedTokens : {{Token}}, amount : {1}, requiresPayment : {FALSE}]

\* createAgent(agent): a ref already in the registry throws; otherwise the
\* definition is validated as handed in, then its status is set to 'draft'
\* and it is stored under its ref.
CreateAgent(agent) ==
  /\ IF agents[agent.ref].status # "none" \/ ~ValidateAgent(agent)
       THEN /\ lastCall' = CallResult("create", "ValidationError", agent.ref)
            /\ UNCHANGED agents
       ELSE /\ agents' = [agents EXCEPT ![agent.ref] = [agent EXCEPT !.status = "draft"]]
            /\ lastCall' = CallResult("create", "", agent.ref)
  /\ UNCHANGED outsideRegistry

\* The `updates` argument of updateAgent: nothing, or one of ref, status,
\* endpointType, endpointUrl and supportedChains.
NoAgentUpdates ==
  [has |-> {}, ref |-> "", status |-> "", endpointType |-> "",
   endpointUrl |-> FALSE, supportedChains |-> {}]

AgentUpdates ==
  {NoAgentUpdates}
    \cup {[NoAgentUpdates EXCEPT !.has = {"ref"}, !.ref = r] : r \in AgentRefs}
    \cup {[NoAgentUpdates EXCEPT !.has = {"status"}, !.status = st] :
            st \in AgentStatuses}
    \cup {[NoAgentUpdates EXCEPT !.has = {"endpointType"}, !.endpointType = t] :
            t \in EndpointTypes}
    \cup {[NoAgentUpdates EXCEPT !.has = {"endpointUrl"}, !.endpointUrl = u] :
            u \in BOOLEAN}
    \cup {[NoAgentUpdates EXCEPT !.has = {"supportedChains"}, !.supportedChains = c] :
            c \in {{Chain}, {}}}

\* {...agent, ...updates} without the trailing ref: a ref in updates wins.
SpreadPatchWins(agent, updates) ==
  [agent EXCEPT
     !.ref = IF "ref" \in updates.has THEN updates.ref ELSE @,
     !.status = IF "status" \in updates.has THEN updates.status ELSE @,
     !.endpointType = IF "endpointType" \in updates.has
                        THEN updates.endpointType ELSE @,
     !.endpointUrl = IF "endpointUrl" \in updates.has
                       THEN updates.endpointUrl ELSE @,
     !.supportedChains = IF "supportedChains" \in updates.has
                           THEN updates.supportedChains ELSE @]

\* {...agent, ...updates, ref: agent.ref}: the properties of updates replace
\* those of agent, then ref is set back to the stored agent's.
Spread(agent, updates) ==
  LET merged ==
        [agent EXCEPT
           !.ref = IF "ref" \in updates.has THEN updates.ref ELSE @,
           !.status = IF "status" \in updates.has THEN updates.status ELSE @,
           !.endpointType = IF "endpointType" \in updates.has
                              THEN updates.endpointType ELSE @,
           !.endpointUrl = IF "endpointUrl" \in updates.has
                             THEN updates.endpointUrl ELSE @,
           !.supportedChains = IF "supportedChains" \in updates.has
                                 THEN updates.supportedChains ELSE @]
  IN [merged EXCEPT !.ref = agent.ref]

\* updateAgent(ref, updates) called as `op`: getAgent throws for an unknown
\* ref; the copy is validated and stored under ref.  The old status is not
\* looked at.
StoreUpdate(op, ref, updates) ==
  LET updatedAgent == Spread(agents[ref], updates)
  IN /\ IF agents[ref].status = "none"
          THEN /\ lastCall' = CallResult(op, "AgentNotFoundError", ref)
               /\ UNCHANGED agents
        ELSE IF ~ValidateAgent(updatedAgent)
          THEN /\ lastCall' = CallResult(op, "ValidationError", ref)
               /\ UNCHANGED agents
        ELSE /\ agents' = [agents EXCEPT ![ref] = updatedAgent]
             /\ lastCall' = CallResult(op, "", ref)
     /\ UNCHANGED outsideRegistry

UpdateAgent(ref, updates) == StoreUpdate("update", ref, updates)

\* publishAgent(ref): an HTTP agent without endpointUrl throws; otherwise
\* updateAgent(ref, {status: 'published'}).
PublishAgent(ref) ==
  IF /\ agents[ref].status # "none"
     /\ agents[ref].endpointType = "http"
     /\ ~agents[ref].endpointUrl
    THEN /\ lastCall' = CallResult("publish", "ValidationError", ref)
         /\ UNCHANGED <<agents, outsideRegistry>>
    ELSE StoreUpdate("publish", ref,
                     [NoAgentUpdates EXCEPT !.has = {"status"}, !.status = "published"])

\* deprecateAgent(ref): updateAgent(ref, {status: 'deprecated'}).
DeprecateAgent(ref) ==
  StoreUpdate("deprecate", ref,
              [NoAgentUpdates EXCEPT !.has = {"status"}, !.status = "deprecated"])

\* deleteAgent(ref): getAgent throws for an unknown ref, a status other than
\* 'draft' throws; otherwise the entry is removed.
DeleteAgent(ref) ==
  /\ IF agents[ref].status = "none"
       THEN /\ lastCall' = CallResult("delete", "AgentNotFoundError", ref)
            /\ UNCHANGED agents
     ELSE IF agents[ref].status # "draft"
       THEN /\ lastCall' = CallResult("delete", "ValidationError", ref)
            /\ UNCHANGED agents
     ELSE /\ agents' = [agents EXCEPT ![ref] = NoAgent]
          /\ lastCall' = CallResult("delete", "", ref)
  /\ UNCHANGED outsideRegistry

(***************************************************************************)
(* WorkflowValidator.                                                      *)
(***************************************************************************)
\* validateStructure: name, at least one node, entry node among the nodes.
ValidateStructure(spec) ==
  /\ spec.name # ""
  /\ Len(spec.nodes) # 0
  /\ spec.entryNodeId # ""
  /\ \E i \in 1..Len(spec.nodes) : spec.nodes[i].id = spec.entryNodeId

\* validateGraph, first loop: every edge endpoint is a node id.
EdgesReferToNodes(spec) ==
  \A i \in 1..Len(spec.edges) :
    /\ spec.edges[i].from \in SeqToSet(IdsOf(spec.nodes))
    /\ spec.edges[i].to \in SeqToSet(IdsOf(spec.nodes))

\* detectCycles' dfs(nodeId): the state is (visited, recStack); the result
\* says whether a back edge was found.
RECURSIVE Dfs(_, _, _, _)
RECURSIVE DfsNeighbors(_, _, _, _, _)
Dfs(edges, nodeId, visited, recStack) ==
  DfsNeighbors(edges, nodeId, Neighbors(edges, nodeId),
               visited \cup {nodeId}, recStack \cup {nodeId})

DfsNeighbors(edges, nodeId, nbrs, visited, recStack) ==
  IF Len(nbrs) = 0
    THEN [found |-> FALSE, visited |-> visited, recStack |-> recStack \ {nodeId}]
  ELSE IF Head(nbrs) \notin visited
    THEN LET r == Dfs(edges, Head(nbrs), visited, recStack)
         IN IF r.found THEN r
            ELSE DfsNeighbors(edges, nodeId, Tail(nbrs), r.visited, r.recStack)
  ELSE IF Head(nbrs) \in recStack
    THEN [found |-> TRUE, visited |-> visited, recStack |-> recStack]
  ELSE DfsNeighbors(edges, nodeId, Tail(nbrs), visited, recStack)

\* detectCycles' loop over spec.nodes.
RECURSIVE DetectFrom(_, _, _)
DetectFrom(edges, ids, visited) ==
  IF Len(ids) = 0 THEN FALSE
  ELSE IF Head(ids) \in visited THEN DetectFrom(edges, Tail(ids), visited)
  ELSE LET r == Dfs(edges, Head(ids), visited, {})
       IN IF r.found THEN TRUE ELSE DetectFrom(edges, Tail(ids), r.visited)

DetectCycles(spec) == DetectFrom(spec.edges, IdsOf(spec.nodes), {})

\* validateReachability's loop: breadth-first from the entry node; a node
\* joins `reachable` when it is taken off the queue.
RECURSIVE Bfs(_, _, _)
Bfs(edges, q, reachable) ==
  IF Len(q) = 0 THEN reachable
  ELSE LET current == Head(q)
           seen == reachable \cup {current}
           NotSeen(x) == x \notin seen
       IN Bfs(edges, Tail(q) \o SelectSeq(Neighbors(edges, current), NotSeen), seen)

AllReachable(spec) ==
  LET reachable == Bfs(spec.edges, <<spec.entryNodeId>>, {})
  IN \A i \in 1..Len(spec.nodes) : spec.nodes[i].id \in reachable

\* Faulty variant: validateGraph without its reachability check.
ValidateGraphEdgesOnly(spec) == EdgesReferToNodes(spec)

\* validateGraph: dangling edges throw, a cycle only logs a warning,
\* unreachable nodes throw.
ValidateGraph(spec) == EdgesReferToNodes(spec) /\ AllReachable(spec)

\* validateAgentReferences: the nodes looked at are those with type 'agent'
\* and a non-empty agentRef; each must name a published agent supporting the
\* spec's chain and token.
ValidateAgentReferences(spec, registry) ==
  \A i \in 1..Len(spec.nodes) :
    (spec.nodes[i].type = "agent" /\ spec.nodes[i].agentRef # "")
      => LET ref == spec.nodes[i].agentRef
         IN /\ ref \in DOMAIN registry
            /\ registry[ref].status = "published"
            /\ spec.chain \in registry[ref].supportedChains
            /\ spec.token \in registry[ref].supportedTokens

\* validateBudget: maxBudget is a number above 0.
ValidateBudget(spec) == spec.maxBudget > 0

\* validate(spec): resolves, or throws WorkflowValidationError.
Validate(spec, registry) ==
  /\ ValidateStructure(spec)
  /\ ValidateGraph(spec)
  /\ ValidateAgentReferences(spec, registry)
  /\ ValidateBudget(spec)

NotValidated == [status |-> "pending", warned |-> FALSE]

\* One call of validate(wf).  The warning is logged only when the first
\* two checks of the call let validateGraph reach detectCycles.
DoValidate ==
  /\ validation.status = "pending"
  /\ wf # NoWorkflow
  /\ validation' =
       [status |-> IF Validate(wf, agents) THEN "ok" ELSE "error",
        warned |-> /\ ValidateStructure(wf)
                   /\ EdgesReferToNodes(wf)
                   /\ DetectCycles(wf)]
  /\ UNCHANGED <<agents, wf, ordering, outsideWf>>

(***************************************************************************)
(* WorkflowExecutionEngine.getExecutionOrder: Kahn's algorithm on Maps     *)
(* that iterate in insertion order.                                        *)
(***************************************************************************)
\* The keys of a Map after set() was called with each element of ks.
RECURSIVE InsertionOrder(_, _)
InsertionOrder(ks, ord) ==
  IF Len(ks) = 0 THEN ord
  ELSE InsertionOrder(Tail(ks),
         IF Head(ks) \in SeqToSet(ord) THEN ord ELSE Append(ord, Head(ks)))

\* graph.get(edge.from)?.push(edge.to): only ids of spec.nodes have a list.
GraphOf(spec) ==
  [n \in SeqToSet(IdsOf(spec.nodes)) |-> Neighbors(spec.edges, n)]

\* inDegree after the two forEach loops: 0 for every node id, plus one per
\* edge into a key; an edge.to that is no node id becomes a key as well.
InDegreeKeys(spec) ==
  LET tos == [i \in 1..Len(spec.edges) |-> spec.edges[i].to]
  IN InsertionOrder(IdsOf(spec.nodes) \o tos, <<>>)

InDegreeOf(spec) ==
  [k \in SeqToSet(InDegreeKeys(spec)) |->
     Cardinality({i \in 1..Len(spec.edges) : spec.edges[i].to = k})]

\* neighbors.forEach: decrement each neighbor, push it when it reaches 0.
RECURSIVE Relax(_, _, _)
Relax(nbrs, inDeg, q) ==
  IF Len(nbrs) = 0 THEN [inDeg |-> inDeg, q |-> q]
  ELSE LET newDegree == inDeg[Head(nbrs)] - 1
       IN Relax(Tail(nbrs), [inDeg EXCEPT ![Head(nbrs)] = newDegree],
                IF newDegree = 0 THEN Append(q, Head(nbrs)) ELSE q)

\* while (queue.length > 0) { shift, push to result, relax neighbors }
RECURSIVE KahnLoop(_, _, _, _)
KahnLoop(graph, inDeg, q, result) ==
  IF Len(q) = 0 THEN result
  ELSE LET current == Head(q)
           nbrs == IF current \in DOMAIN graph THEN graph[current] ELSE <<>>
           r == Relax(nbrs, inDeg, Tail(q))
       IN KahnLoop(graph, r.inDeg, r.q, Append(result, current))

\* Faulty variant: the nodes in the order the spec lists them.
GetExecutionOrderAsListed(spec) == [status |-> "ok", order |-> IdsOf(spec.nodes)]

\* getExecutionOrder(spec): the order, or ExecutionError when its length is
\* not the number of nodes.
GetExecutionOrder(spec) ==
  LET inDeg == InDegreeOf(spec)
      IsZero(k) == inDeg[k] = 0
      result == KahnLoop(GraphOf(spec), inDeg,
                         SelectSeq(InDegreeKeys(spec), IsZero), <<>>)
  IN IF Len(result) # Len(spec.nodes)
       THEN [status |-> "error", order |-> <<>>]
       ELSE [status |-> "ok", order |-> result]

NotOrdered == [status |-> "pending", order |-> <<>>]

\* The engine is handed a spec that validate accepted and computes its order.
DoOrder ==
  /\ validation.status = "ok"
  /\ ordering.status = "pending"
  /\ ordering' = GetExecutionOrder(wf)
  /\ UNCHANGED <<agents, wf, validation, outsideWf>>

(***************************************************************************)
(* WorkflowParser.validate and the topologicalSort of the two workflow     *)
(* executors.  A parsed workflow has the members of a WorkflowSpec the     *)
(* parser reads: top-level name, version, description, chain, budgetToken, *)
(* inputs and outputs are present, and every node has a name and inputs.   *)
(***************************************************************************)
outsideParser ==
  <<ledgerVars, callVars, schedVars, lastCall, wfVars, engineVars, payVars,
    mwVars, tr, extraction, cacheVars>>

NotParsed ==
  [accepted |-> "pending", registryOrder |-> NotOrdered,
   paymentOrder |-> NotOrdered]

\* validateNode for each node in turn, nodeIds being the ids seen so far.
RECURSIVE ValidateNodes(_, _)
ValidateNodes(nodes, nodeIds) ==
  \/ Len(nodes) = 0
  \/ /\ Head(nodes).id # ""
     /\ Head(nodes).id \notin nodeIds
     /\ Head(nodes).agentRef # ""
     /\ Head(nodes).maxAttempts >= 0
     /\ ValidateNodes(Tail(nodes), nodeIds \cup {Head(nodes).id})

\* validateEdge for every edge, nodeIds being the ids of all nodes.
ValidateEdges(edges, nodeIds) ==
  \A i \in 1..Len(edges) : edges[i].from \in nodeIds /\ edges[i].to \in nodeIds

\* Faulty variant: the search for cycles started from the first node only.
CheckForCyclesFromFirst(nodes, edges) ==
  Len(nodes) > 0 /\ Dfs(edges, nodes[1].id, {}, {}).found

\* checkForCycles(nodes, edges): TRUE when it throws.  Its depth-first
\* search is that of detectCycles.
CheckForCycles(nodes, edges) == DetectFrom(edges, IdsOf(nodes), {})

\* WorkflowParser.validate(workflow): TRUE when it returns.
ParserValidate(workflow) ==
  /\ workflow.name # ""
  /\ workflow.maxBudget > 0
  /\ Len(workflow.nodes) # 0
  /\ ValidateNodes(workflow.nodes, {})
  /\ ValidateEdges(workflow.edges, SeqToSet(IdsOf(workflow.nodes)))
  /\ ~CheckForCycles(workflow.nodes, workflow.edges)

\* The ids Kahn's loop takes from the queue, for Maps built from nodes and
\* edges as in getExecutionOrder.
KahnOrder(nodes, edges) ==
  LET spec == [nodes |-> nodes, edges |-> edges]
      inDeg == InDegreeOf(spec)
      IsZero(k) == inDeg[k] = 0
  IN KahnLoop(GraphOf(spec), inDeg, SelectSeq(InDegreeKeys(spec), IsZero), <<>>)

\* RegistryWorkflowExecutor.topologicalSort: graph.get(edge.from)! and
\* graph.get(nodeId)! throw a TypeError for an id that is no node.
RegistryTopologicalSort(nodes, edges) ==
  LET sorted == KahnOrder(nodes, edges)
  IN IF ~ValidateEdges(edges, SeqToSet(IdsOf(nodes))) \/ Len(sorted) # Len(nodes)
       THEN [status |-> "error", order |-> <<>>]
       ELSE [status |-> "ok", order |-> sorted]

\* PaymentEnabledWorkflowExecutor.topologicalSort: an id taken from the
\* queue that is no node is left out of `sorted`.
PaymentTopologicalSort(nodes, edges) ==
  LET IsNode(k) == k \in SeqToSet(IdsOf(nodes))
      sorted == SelectSeq(KahnOrder(nodes, edges), IsNode)
  IN IF Len(sorted) # Len(nodes)
       THEN [status |-> "error", order |-> <<>>]
       ELSE [status |-> "ok", order |-> sorted]

\* WorkflowParser.parse validating the parsed workflow.
DoParse ==
  /\ parsing.accepted = "pending"
  /\ parsing' = [parsing EXCEPT
                   !.accepted = IF ParserValidate(wf) THEN "ok" ELSE "error"]
  /\ UNCHANGED outsideParser

\* executeWorkflow of RegistryWorkflowExecutor ordering a parsed workflow.
RegistrySort ==
  /\ parsing.accepted = "ok"
  /\ parsing.registryOrder.status = "pending"
  /\ parsing' = [parsing EXCEPT
                   !.registryOrder = RegistryTopologicalSort(wf.nodes, wf.edges)]
  /\ UNCHANGED outsideParser

\* executeWorkflow of PaymentEnabledWorkflowExecutor ordering a parsed
\* workflow.
PaymentSort ==
  /\ parsing.accepted = "ok"
  /\ parsing.paymentOrder.status = "pending"
  /\ parsing' = [parsing EXCEPT
                   !.paymentOrder = PaymentTopologicalSort(wf.nodes, wf.edges)]
  /\ UNCHANGED outsideParser

(***************************************************************************)
(* WorkflowExecutionEngine.executeRun / executeNode.  The call is          *)
(* suspended at `await getAgent`, at `await callAgentWithInputs` or at the *)
(* backoff timer; every action runs it from one await to the next.         *)
(***************************************************************************)
MaxAttempts == 1

\* Agent calls of one node are followed up to this many.
MaxInvocations == MaxAttempts + 2

IdleExec ==
  [pc |-> "idle", runId |-> "", order |-> <<>>, pos |-> 0, retryCount |-> 0,
   agent |-> NoAgent]

NoHeldRun == [status |-> "none", endedAt |-> 0, error |-> "", output |-> 0]

EngineIdle ==
  /\ exec = IdleExec
  /\ heldRun = NoHeldRun
  /\ context = [n \in NodeIds |-> 0]
  /\ invocations = [n \in NodeIds |-> 0]

\* workflowSpec.nodes.find(n => n.id === nodeId)
HasNode(spec, nodeId) == \E i \in 1..Len(spec.nodes) : spec.nodes[i].id = nodeId

FindNode(spec, nodeId) ==
  spec.nodes[CHOOSE i \in 1..Len(spec.nodes) :
               /\ spec.nodes[i].id = nodeId
               /\ \A j \in 1..(i - 1) : spec.nodes[j].id # nodeId]

\* this.agents.get(ref)
Lookup(registry, ref) == IF ref \in DOMAIN registry THEN registry[ref] ELSE NoAgent

CurrentNode == FindNode(wf, exec.order[exec.pos])

\* run.status = ...; run.endedAt = new Date(); run.error / run.output: the
\* writes go to the object executeRun was handed, which is the scheduler's
\* map entry only as long as no updateRunStatus replaced the entry by a copy.
SetRun(runId, status, error, output) ==
  /\ heldRun' = [status |-> status, endedAt |-> clock, error |-> error,
                 output |-> output]
  /\ runs' = IF runs[runId].original
               THEN [runs EXCEPT ![runId].status = status, ![runId].endedAt = clock]
               ELSE runs

\* executeRun's catch block: mark the run failed and rethrow.
RunFails(runId, order, pos, error) ==
  /\ exec' = [pc |-> "thrown", runId |-> runId, order |-> order, pos |-> pos,
              retryCount |-> exec.retryCount, agent |-> exec.agent]
  /\ SetRun(runId, "failed", error, 0)

\* executeNode up to `await this.agentRegistry.getAgent(node.agentRef)`: a
\* new nodeRun with retryCount 0; getAgent reads the registry when called.
EnterNode(runId, order, pos) ==
  /\ exec' = [pc |-> "getAgent", runId |-> runId, order |-> order, pos |-> pos,
              retryCount |-> 0,
              agent |-> Lookup(agents, FindNode(wf, order[pos]).agentRef)]
  /\ UNCHANGED <<heldRun, runs>>

\* Faulty variant: the loop of executeRun reporting the first node's output.
ProceedFirstOutput(runId, order, pos, ctx) ==
  IF pos > Len(order)
    THEN /\ exec' = [pc |-> "returned", runId |-> runId, order |-> order,
                     pos |-> Len(order), retryCount |-> exec.retryCount,
                     agent |-> exec.agent]
         /\ SetRun(runId, "completed", "", IF Len(order) = 0 THEN 0 ELSE ctx[order[1]])
  ELSE IF ~HasNode(wf, order[pos])
    THEN RunFails(runId, order, pos, "ExecutionError")
  ELSE EnterNode(runId, order, pos)

\* The for loop of executeRun at position pos, ctx being the context by then:
\* past the end the run is completed with the last node's output; a node id
\* that is no node of the spec throws; otherwise the node is started.
Proceed(runId, order, pos, ctx) ==
  IF pos > Len(order)
    THEN /\ exec' = [pc |-> "returned", runId |-> runId, order |-> order,
                     pos |-> Len(order), retryCount |-> exec.retryCount,
                     agent |-> exec.agent]
         /\ SetRun(runId, "completed", "",
                   IF Len(order) = 0 THEN 0 ELSE ctx[order[Len(order)]])
  ELSE IF ~HasNode(wf, order[pos])
    THEN RunFails(runId, order, pos, "ExecutionError")
  ELSE EnterNode(runId, order, pos)

\* executeRun(wf, run) with the run object scheduleRun returned for runId:
\* the order is computed, then the first node is started.
ExecuteRun(runId) ==
  /\ exec.pc = "idle"
  /\ runs[runId].status # "none"
  /\ context' = [n \in NodeIds |-> 0]
  /\ LET o == GetExecutionOrder(wf)
     IN IF o.status = "error"
          THEN RunFails(runId, <<>>, 0, "ExecutionError")
          ELSE Proceed(runId, o.order, 1, context')
  /\ UNCHANGED <<invocations, outsideEngine>>

\* executeNode's catch block: retry when the node has a retryPolicy and this
\* nodeRun's retryCount is below maxAttempts, else rethrow into executeRun.
NodeFails(error) ==
  IF CurrentNode.maxAttempts > 0 /\ exec.retryCount < CurrentNode.maxAttempts
    THEN /\ exec' = [exec EXCEPT !.pc = "backoff", !.retryCount = @ + 1]
         /\ UNCHANGED <<heldRun, runs>>
    ELSE RunFails(exec.runId, exec.order, exec.pos, error)

\* getAgent resolves or throws; no endpoint URL throws; otherwise the agent
\* is called.
GetAgentResume ==
  /\ exec.pc = "getAgent"
  /\ IF exec.agent.status = "none"
       THEN NodeFails("AgentNotFoundError") /\ UNCHANGED invocations
     ELSE IF ~exec.agent.endpointUrl
       THEN NodeFails("ExecutionError") /\ UNCHANGED invocations
     ELSE /\ invocations[CurrentNode.id] < MaxInvocations
          /\ invocations' = [invocations EXCEPT ![CurrentNode.id] = @ + 1]
          /\ exec' = [exec EXCEPT !.pc = "calling"]
          /\ UNCHANGED <<heldRun, runs>>
  /\ UNCHANGED <<context, outsideEngine>>

\* nodeRun.cost of a completed node: the price of its agent.
NodeCost(nodeId) == Lookup(agents, FindNode(wf, nodeId).agentRef).amount

\* callAgentWithInputs returned: the output goes into the context and the
\* loop moves on to the next node of the order.  The message callAgent
\* builds carries no payment metadata, so the middleware of an agent that
\* requires payment never lets it through to the agent logic.
AgentReturns ==
  /\ exec.pc = "calling"
  /\ ~exec.agent.requiresPayment
  /\ context' = [context EXCEPT ![CurrentNode.id] = invocations[CurrentNode.id]]
  /\ Proceed(exec.runId, exec.order, exec.pos + 1, context')
  /\ UNCHANGED <<invocations, outsideEngine>>

\* What makes callAgentWithInputs raise: a 402 payment challenge, another
\* 4xx answer, or a 5xx answer / transport failure / timeout.  callAgent wraps
\* each in an ExecutionError whose message carries the cause.
ErrorKinds == {"PaymentRequired", "ClientError", "ServerError"}

\* callAgentWithInputs raised; only an agent that requires payment answers
\* with a payment challenge.
AgentRaises(kind) ==
  /\ exec.pc = "calling"
  /\ kind = "PaymentRequired" => exec.agent.requiresPayment
  /\ NodeFails(kind)
  /\ UNCHANGED <<context, invocations, outsideEngine>>

\* The backoff timer fired: `return this.executeNode(node, context, runId)`.
BackoffResume ==
  /\ exec.pc = "backoff"
  /\ EnterNode(exec.runId, exec.order, exec.pos)
  /\ UNCHANGED <<context, invocations, outsideEngine>>

(***************************************************************************)
(* PaymentEnabledWorkflowExecutor.executeNode with its PaymentAwareClient. *)
(* The agent lookup and the client construction have succeeded; the model  *)
(* follows the retry loop and, inside it, sendMessage from await to await. *)
(***************************************************************************)
NoPayConfig == [retryMax |-> 0, wallet |-> FALSE, cap |-> 0]

\* executeNode is not running: `config` holds node.retry.maxAttempts (0: no
\* retry), whether a wallet is configured and maxPaymentPerAgent.
IdlePay(config) ==
  [pc |-> "idle", config |-> config, attempt |-> 0, maxAttempts |-> 0, amount |-> 0,
   metadata |-> {}]

\* The metadata keys sendMessage adds to the message it sends again after
\* paying: paymentProvided (true), the signed payload, the requirements of the
\* challenge, the hash of the transfer, the network and the payer's address.
PaymentMetadata ==
  {"paymentProvided", "paymentProof", "paymentRequirements", "transactionHash",
   "network", "payer"}

NoSends == [unpaid |-> 0, signed |-> 0, paid |-> 0]

PayIdle ==
  /\ pay = IdlePay(NoPayConfig)
  /\ chain = [balance |-> 0, transfers |-> 0]
  /\ sends = NoSends

\* this.client.sendMessage(options) with the message as executeNode built it.
SendUnpaid(p) ==
  /\ pay' = [p EXCEPT !.pc = "unpaidSent", !.metadata = {}]
  /\ sends' = [sends EXCEPT !.unpaid = @ + 1]

\* executeNode: maxAttempts = node.retry?.maxAttempts || 1; the first pass of
\* the while loop sends without waiting.
PayExecuteNode ==
  /\ pay.pc = "idle"
  /\ SendUnpaid([pay EXCEPT !.attempt = 1,
                            !.maxAttempts = IF pay.config.retryMax = 0
                                              THEN 1 ELSE pay.config.retryMax])
  /\ UNCHANGED <<chain, outsidePay>>

\* The catch of the while loop: rethrow after the last attempt; otherwise the
\* next pass increments attempt and waits for the backoff timer.
AttemptFailsFrom(p) ==
  /\ pay' = IF p.attempt >= p.maxAttempts
              THEN [p EXCEPT !.pc = "failed"]
              ELSE [p EXCEPT !.pc = "backoff", !.attempt = @ + 1]
  /\ UNCHANGED sends

AttemptFails == AttemptFailsFrom(pay)

\* Faulty variant: a challenge is paid whatever the cap and the wallet say.
UnpaidRespondsPaysAnyway(kind, amount) ==
  /\ pay.pc = "unpaidSent"
  /\ CASE kind = "result" -> pay' = [pay EXCEPT !.pc = "done"] /\ UNCHANGED sends
       [] kind \in {"error", "raise"} -> AttemptFails
       [] kind = "challenge" ->
            /\ pay' = [pay EXCEPT !.pc = "signing", !.amount = amount]
            /\ UNCHANGED sends
  /\ UNCHANGED <<chain, outsidePay>>

\* The first response of sendMessage: a result, an error that is no payment
\* challenge, a 402 challenge asking for `amount`, or a rejected request.
\* The challenge's amount is parsed before the cap and the wallet are looked
\* at.
UnpaidResponds(kind, amount) ==
  /\ pay.pc = "unpaidSent"
  /\ CASE kind = "result" -> pay' = [pay EXCEPT !.pc = "done"] /\ UNCHANGED sends
       [] kind \in {"error", "raise"} -> AttemptFails
       [] kind = "challenge" ->
            IF amount > pay.config.cap \/ ~pay.config.wallet
              THEN AttemptFailsFrom([pay EXCEPT !.amount = amount])
              ELSE /\ pay' = [pay EXCEPT !.pc = "signing", !.amount = amount]
                   /\ UNCHANGED sends
  /\ UNCHANGED <<chain, outsidePay>>

\* processPaymentWithWallet resolved or rejected; on success
\* executeOnChainTransfer runs up to `await usdcContract.balanceOf(...)`.
SignResume(ok) ==
  /\ pay.pc = "signing"
  /\ IF ok
       THEN /\ pay' = [pay EXCEPT !.pc = "balanceOf"]
            /\ sends' = [sends EXCEPT !.signed = @ + 1]
       ELSE AttemptFails
  /\ UNCHANGED <<chain, outsidePay>>

\* balanceOf resolved: too small a balance throws, otherwise transfer is sent.
BalanceResume ==
  /\ pay.pc = "balanceOf"
  /\ IF chain.balance < pay.amount
       THEN AttemptFails
       ELSE pay' = [pay EXCEPT !.pc = "transfer"] /\ UNCHANGED sends
  /\ UNCHANGED <<chain, outsidePay>>

\* usdcContract.transfer(payTo, amount) resolved with the submitted
\* transaction, or was rejected.
TransferResume(ok) ==
  /\ pay.pc = "transfer"
  /\ IF ok
       THEN pay' = [pay EXCEPT !.pc = "wait"] /\ UNCHANGED sends
       ELSE AttemptFails
  /\ UNCHANGED <<chain, outsidePay>>

\* Faulty variant: the request is sent again although the transfer reverted.
ReceiptResumeIgnoresRevert(ok) ==
  /\ pay.pc = "wait"
  /\ chain' = IF ok THEN [balance |-> chain.balance - pay.amount,
                          transfers |-> chain.transfers + 1]
                    ELSE chain
  /\ pay' = [pay EXCEPT !.pc = "paidSent", !.metadata = PaymentMetadata]
  /\ sends' = [sends EXCEPT !.paid = @ + 1]
  /\ UNCHANGED outsidePay

\* tx.wait() resolved with the receipt: the transfer is executed, and the
\* request is sent again with the payment proof in its metadata.  A rejected
\* wait (the transaction reverted) transfers nothing and is thrown to
\* executeNode.
ReceiptResume(ok) ==
  /\ pay.pc = "wait"
  /\ IF ok
       THEN /\ chain' = [balance |-> chain.balance - pay.amount,
                         transfers |-> chain.transfers + 1]
            /\ pay' = [pay EXCEPT !.pc = "paidSent", !.metadata = PaymentMetadata]
            /\ sends' = [sends EXCEPT !.paid = @ + 1]
       ELSE AttemptFails /\ UNCHANGED chain
  /\ UNCHANGED outsidePay

\* The response to the paid request is returned as it is; executeNode throws
\* on an error response.
PaidResponds(kind) ==
  /\ pay.pc = "paidSent"
  /\ IF kind = "result"
       THEN pay' = [pay EXCEPT !.pc = "done"] /\ UNCHANGED sends
       ELSE AttemptFails
  /\ UNCHANGED <<chain, outsidePay>>

\* The backoff timer fired: sendMessage is called with the same message.
PayBackoffResume ==
  /\ pay.pc = "backoff"
  /\ SendUnpaid(pay)
  /\ UNCHANGED <<chain, outsidePay>>

(***************************************************************************)
(* X402PaymentMiddleware wrapping the executor of agent "upper", and the   *)
(* verifyPayment of X402PaymentService.                                    *)
(***************************************************************************)
Networks == {"base", "base-sepolia"}

\* message.metadata.paymentProof when absent.
NoProof ==
  [present |-> FALSE, network |-> "", to |-> "", from |-> "", value |-> 0,
   validAfter |-> 0, validBefore |-> 0, signer |-> ""]

\* A payment payload: its network, the authorization (to, from, value,
\* validAfter, validBefore) and the address its signature recovers to.
Proofs ==
  [present : {TRUE}, network : Networks, to : {"merchant", "other"},
   from : {"payer"}, value : 0..MaxAmount, validAfter : 0..MaxClock,
   validBefore : 0..MaxClock, signer : {"payer", "other"}]

\* A message: whether it has metadata, metadata.paymentProvided and
\* metadata.paymentProof.
NoMessage == [metadata |-> FALSE, paymentProvided |-> FALSE, paymentProof |-> NoProof]

Messages ==
  {NoMessage}
    \cup [metadata : {TRUE}, paymentProvided : BOOLEAN,
          paymentProof : Proofs \cup {NoProof}]

IdleMiddleware == [pc |-> "idle", message |-> NoMessage]

\* getPaymentRequirements(): null unless the agent requires payment.
GetPaymentRequirements(agent) ==
  [present |-> agent.requiresPayment, network |-> Chain, payTo |-> "merchant",
   maxAmountRequired |-> agent.amount]

\* checkPaymentInMessage(message): metadata with paymentProvided and a
\* paymentProof; the proof itself is not looked at.
CheckPaymentInMessage(message) ==
  /\ message.metadata
  /\ message.paymentProvided
  /\ message.paymentProof.present

\* X402PaymentService.verifyPayment(paymentPayload, requirements) at time now.
VerifyPayment(payload, requirements, now) ==
  IF payload.network # requirements.network
    THEN [valid |-> FALSE, error |-> "Network mismatch"]
  ELSE IF payload.to # requirements.payTo
    THEN [valid |-> FALSE, error |-> "Recipient address mismatch"]
  ELSE IF payload.value < requirements.maxAmountRequired
    THEN [valid |-> FALSE, error |-> "Insufficient payment amount"]
  ELSE IF now < payload.validAfter \/ now > payload.validBefore
    THEN [valid |-> FALSE, error |-> "Payment expired or not yet valid"]
  ELSE IF payload.signer # payload.from
    THEN [valid |-> FALSE, error |-> "Invalid signature"]
  ELSE [valid |-> TRUE, error |-> ""]

\* execute(input): an agent that requires payment and a message without
\* payment throw x402PaymentRequiredException; otherwise the delegate (the
\* agent logic) is started.
MiddlewareExecute(input) ==
  /\ mw.pc = "idle"
  /\ mw' = [pc |-> IF /\ agents["upper"].requiresPayment
                      /\ ~CheckPaymentInMessage(input)
                      /\ GetPaymentRequirements(agents["upper"]).present
                    THEN "paymentRequired"
                    ELSE "delegate",
            message |-> input]
  /\ UNCHANGED outsideMw

\* super.execute(input) returned the agent's answer.
DelegateReturns ==
  /\ mw.pc = "delegate"
  /\ mw' = [mw EXCEPT !.pc = "returned"]
  /\ UNCHANGED outsideMw

(***************************************************************************)
(* TemplateResolver.  A string is the sequence of its pieces: the          *)
(* {{path}} tokens the pattern /\{\{([^}]+)\}\}/g matches, with the path   *)
(* split at the dots, and the text between them.  A value is a number, a   *)
(* string, null, a mapping (object) or undefined.  Path segments are not   *)
(* names of built-in properties.                                           *)
(***************************************************************************)
Undefined == [kind |-> "undefined"]
Null == [kind |-> "null"]
Num(n) == [kind |-> "num", v |-> n]
Obj(fields) == [kind |-> "map", fields |-> fields]
TextOf(t) == [kind |-> "text", text |-> t]
TokenOf(path) == [kind |-> "token", path |-> path]
Str(pieces) == [kind |-> "string", parts |-> pieces]

outsideResolver ==
  <<ledgerVars, callVars, schedVars, lastCall, wfVars, engineVars, payVars,
    mwVars, extraction, cacheVars, parsing>>

IdleResolver ==
  [pc |-> "idle", template |-> Undefined, context |-> Obj(<<>>),
   result |-> Undefined]

\* current[part]: the property of a mapping, undefined where there is none.
Property(current, part) ==
  IF current.kind = "map" /\ part \in DOMAIN current.fields
    THEN current.fields[part]
    ELSE Undefined

\* getNestedValue(obj, path) from the i-th part on.
RECURSIVE NestedFrom(_, _, _)
NestedFrom(current, path, i) ==
  IF i > Len(path) THEN current
  ELSE IF current.kind \in {"undefined", "null"} THEN Undefined
  ELSE NestedFrom(Property(current, path[i]), path, i + 1)

GetNestedValue(obj, path) == NestedFrom(obj, path, 1)

\* String(value), as the pieces of text it contributes.
StringOf(value) ==
  CASE value.kind = "num" -> <<TextOf(ToString(value.v))>>
    [] value.kind = "string" -> value.parts
    [] value.kind = "null" -> <<TextOf("null")>>
    [] value.kind = "map" -> <<TextOf("[object Object]")>>

\* template.replace(templatePattern, ...) on the pieces from the i-th on.
RECURSIVE ReplaceFrom(_, _, _)
ReplaceFrom(pieces, ctx, i) ==
  IF i > Len(pieces) THEN <<>>
  ELSE LET piece == pieces[i]
           value == GetNestedValue(ctx, piece.path)
       IN (IF piece.kind = "text" THEN <<piece>>
           ELSE IF value.kind # "undefined" THEN StringOf(value)
           ELSE <<piece>>) \o ReplaceFrom(pieces, ctx, i + 1)

\* resolve(template, context).
Resolve(template, ctx) ==
  LET pieces == template.parts
      HasToken == \E i \in 1..Len(pieces) : pieces[i].kind = "token"
  IN IF template.kind # "string" THEN template
     ELSE IF ~HasToken THEN template
     ELSE IF Len(pieces) = 1 THEN GetNestedValue(ctx, pieces[1].path)
     ELSE Str(ReplaceFrom(pieces, ctx, 1))

DoResolve ==
  /\ tr.pc = "idle"
  /\ tr' = [tr EXCEPT !.pc = "done", !.result = Resolve(tr.template, tr.context)]
  /\ UNCHANGED outsideResolver

(***************************************************************************)
(* PaymentAwareClient.extractPaymentRequirements, called by sendMessage    *)
(* with the `error` member of a JSON-RPC response.  That member is parsed  *)
(* JSON, never an Error instance.  Of each object the model keeps the      *)
(* members the method reads; a payment requirement is modelled by a name.  *)
(***************************************************************************)
outsideExtraction ==
  <<ledgerVars, callVars, schedVars, lastCall, wfVars, engineVars, payVars,
    mwVars, tr, cacheVars, parsing>>

\* A `data` / `details` member: absent, or an object with or without an
\* `accepts` array.
NoData == [present |-> FALSE, hasAccepts |-> FALSE, accepts |-> <<>>]

DataValues ==
  {NoData, [NoData EXCEPT !.present = TRUE]}
    \cup {[present |-> TRUE, hasAccepts |-> TRUE, accepts |-> reqs] :
            reqs \in {<<>>, <<"req1">>, <<"req2", "req1">>}}

\* An `error` member nested inside the error object: absent or an object.
NoInnerError == [present |-> FALSE, code |-> 0, data |-> NoData]

\* The `message` texts, and whether the lower-cased text includes
\* 'payment required' or '402'.
MessageTexts == {"Payment Required", "Error 402", "Pay the merchant first"}

MentionsPayment(message) == message \in {"Payment Required", "Error 402"}

NoExtraction ==
  [pc |-> "idle",
   error |-> [code |-> 0, message |-> "", data |-> NoData, details |-> NoData,
              error |-> NoInnerError],
   result |-> "null"]

\* array[0] of an `accepts` array.
First(accepts) == IF Len(accepts) > 0 THEN accepts[1] ELSE "undefined"

\* extractPaymentRequirements(error) for a parsed error object.
ExtractPaymentRequirements(error) ==
  LET jsonRpcError == error.error
      data == IF error.data.present THEN error.data ELSE error.details
  IN IF /\ jsonRpcError.present
        /\ jsonRpcError.code = 402 /\ jsonRpcError.data.present
        /\ jsonRpcError.data.hasAccepts /\ Len(jsonRpcError.data.accepts) > 0
       THEN jsonRpcError.data.accepts[1]
     ELSE IF /\ MentionsPayment(error.message)
             /\ error.data.present \/ error.details.present
             /\ data.hasAccepts
       THEN First(data.accepts)
     ELSE "null"

\* sendMessage's `if (paymentRequirements)`.
IsChallenge(paymentRequirements) == paymentRequirements \notin {"null", "undefined"}

DoExtract ==
  /\ extraction.pc = "idle"
  /\ extraction' = [extraction EXCEPT
                      !.pc = "done",
                      !.result = ExtractPaymentRequirements(extraction.error)]
  /\ UNCHANGED outsideExtraction

(***************************************************************************)
(* A2AAgentCaller.getClient and clearCache.  getClient runs synchronously  *)
(* up to `await A2AClient.fromCardUrl`; other calls may run before the     *)
(* fetch of the agent card resolves or rejects.                            *)
(***************************************************************************)
CardUrls == {"E1", "E2"}
MaxClients == 3

outsideCache ==
  <<ledgerVars, callVars, schedVars, lastCall, wfVars, engineVars, payVars,
    mwVars, tr, extraction, parsing>>

IdleClientCall == [pc |-> "idle", cardUrl |-> "", client |-> 0]

\* new A2AAgentCaller()
EmptyCache ==
  /\ clients = [url \in CardUrls |-> 0]
  /\ clientCalls = [c \in Callers |-> IdleClientCall]
  /\ created = 0

\* getClient(cardUrl) up to its first await: a cached client is returned,
\* otherwise the call waits for fromCardUrl.
GetClient(c, cardUrl) ==
  /\ clientCalls[c].pc = "idle"
  /\ clientCalls' =
       [clientCalls EXCEPT
          ![c] = IF clients[cardUrl] # 0
                   THEN [pc |-> "returned", cardUrl |-> cardUrl,
                         client |-> clients[cardUrl]]
                   ELSE [pc |-> "fetching", cardUrl |-> cardUrl, client |-> 0]]
  /\ UNCHANGED <<clients, created, outsideCache>>

\* fromCardUrl resolves: the new client is stored under the cardUrl and
\* returned.
FetchResolves(c) ==
  /\ clientCalls[c].pc = "fetching"
  /\ created < MaxClients
  /\ created' = created + 1
  /\ clients' = [clients EXCEPT ![clientCalls[c].cardUrl] = created + 1]
  /\ clientCalls' = [clientCalls EXCEPT ![c].pc = "returned",
                                        ![c].client = created + 1]
  /\ UNCHANGED outsideCache

\* fromCardUrl rejects: getClient throws an ExecutionError.
FetchRejects(c) ==
  /\ clientCalls[c].pc = "fetching"
  /\ clientCalls' = [clientCalls EXCEPT ![c].pc = "threw"]
  /\ UNCHANGED <<clients, created, outsideCache>>

\* The caller of getClient goes on and may call again.
ClientCallEnds(c) ==
  /\ clientCalls[c].pc \in {"returned", "threw"}
  /\ clientCalls' = [clientCalls EXCEPT ![c] = IdleClientCall]
  /\ UNCHANGED <<clients, created, outsideCache>>

\* clearCache()
ClearCache ==
  /\ clients' = [url \in CardUrls |-> 0]
  /\ UNCHANGED <<clientCalls, created, outsideCache>>

(***************************************************************************)
(* ReserveSpec: concurrent reserveBudget calls and nothing else.  The      *)
(* wallets were funded (addFunds on a fresh BudgetManager) before the      *)
(* calls start; startBalance remembers those balances.                     *)
(***************************************************************************)
vars == <<walletBalances, reservations, calls, startBalance, runs, queue,
          clock, releaseCount, lastCall, agents, wf, validation, ordering,
          exec, heldRun, context, invocations, pay, chain, sends, mw, tr,
          extraction, clients, clientCalls, created, parsing>>

NoRun ==
  [status |-> "none", userWallet |-> "", reservedBudget |-> 0, spentBudget |-> 0,
   startedAt |-> 0, endedAt |-> 0, original |-> FALSE]

\* A fresh BudgetManager and WorkflowScheduler: no reservation, no run, no
\* call in progress.
CoreServices ==
  /\ startBalance = walletBalances
  /\ reservations = [r \in RunIds |-> NoReservation]
  /\ calls = [c \in Callers |-> IdleCall]
  /\ runs = [r \in RunIds |-> NoRun]
  /\ queue = <<>>
  /\ clock = 1
  /\ releaseCount = [r \in RunIds |-> 0]
  /\ lastCall = NoCall
  /\ mw = IdleMiddleware

\* Freshly constructed services, with no utility call made.
FreshServices ==
  /\ CoreServices
  /\ tr = IdleResolver
  /\ extraction = NoExtraction
  /\ EmptyCache
  /\ parsing = NotParsed

\* Fresh services whose wallets have been funded.
FundedInit ==
  /\ walletBalances \in [Wallets -> 0..MaxBalance]
  /\ FreshServices
  /\ agents = PublishedRegistry
  /\ wf = NoWorkflow
  /\ validation = NotValidated
  /\ ordering = NotOrdered
  /\ EngineIdle
  /\ PayIdle

ReserveInit == FundedInit

ReserveNext ==
  \/ \E c \in Callers, r \in RunIds, w \in Wallets, a \in Amounts :
       ReserveCall(c, r, w, a)
  \/ \E c \in Callers : ReserveResume(c)
  \/ \E c \in Callers : ReserveReturn(c)

ReserveSpec == ReserveInit /\ [][ReserveNext]_vars

LedgerInit == FundedInit

LedgerNext ==
  \/ \E r \in RunIds, w \in Wallets, a \in Amounts : LedgerReserve(r, w, a)
  \/ \E r \in RunIds, spent \in 0..MaxAmount : LedgerRelease(r, spent)
  \/ \E r \in RunIds : LedgerSettle(r)

LedgerSpec == LedgerInit /\ [][LedgerNext]_vars

(***************************************************************************)
(* SchedSpec: any sequence of schedule, next, updateStatus and cancel,      *)
(* all within one tick of the clock.                                       *)
(***************************************************************************)
\* The wallet the runs are scheduled from; the other wallet stays empty.
SchedWallet == "w1"

SchedInit ==
  /\ FundedInit
  /\ \A w \in Wallets \ {SchedWallet} : walletBalances[w] = 0

SchedNext ==
  \/ \E a \in Amounts : ScheduleRun(SchedWallet, a)
  \/ GetNextRun
  \/ \E r \in RunIds, st \in RunStatuses, u \in UpdatesNow : UpdateRunStatus(r, st, u)
  \/ \E r \in RunIds : CancelRun(r)

SchedSpec == SchedInit /\ [][SchedNext]_vars

(***************************************************************************)
(* InterleaveSpec: reserveBudget, releaseBudget, settleBudget and addFunds *)
(* called concurrently on one wallet, one call per caller, interleaved at  *)
(* their awaits.                                                           *)
(***************************************************************************)
InterleaveInit ==
  /\ FundedInit
  /\ \A w \in Wallets \ {SchedWallet} : walletBalances[w] = 0

\* A reserveBudget call awaited to its end before the concurrent calls
\* start.
EarlierReserve(runId, amount) ==
  /\ \A c \in Callers : calls[c].pc = "idle"
  /\ reservations = [r \in RunIds |-> NoReservation]
  /\ LedgerReserve(runId, SchedWallet, amount)

InterleaveNext ==
  \/ \E a \in Amounts : EarlierReserve("r1", a)
  \/ \E c \in Callers, r \in RunIds, a \in Amounts :
       ReserveCall(c, r, SchedWallet, a)
  \/ \E c \in Callers : ReserveResume(c)
  \/ \E c \in Callers : ReserveReturn(c)
  \/ \E c \in Callers, r \in RunIds, spent \in {0, MaxAmount} : ReleaseCall(c, r, spent)
  \/ \E c \in Callers : ReleaseResume(c)
  \/ \E c \in Callers : ReleaseReturn(c)
  \/ \E c \in Callers, r \in RunIds : SettleCall(c, r)
  \/ \E c \in Callers : AddFundsCall(c, SchedWallet, MaxAmount)
  \/ \E c \in Callers : AddFundsResume(c)
  \/ \E c \in Callers : AddFundsReturn(c)

InterleaveSpec == InterleaveInit /\ [][InterleaveNext]_vars

\* C39: whatever the interleaving of reserve, release, settle and addFunds
\* calls with non-negative amounts, no wallet balance is negative.
C39_BalancesNeverNegative == \A w \in Wallets : walletBalances[w] >= 0

\* Two reserve calls on one wallet both went through on a balance read
\* before either debited it: together they reserve more than the wallet held
\* when the second one read it.
C39_DebitedOnStaleBalance ==
  \E c1, c2 \in Callers :
    /\ c1 # c2
    /\ calls[c1].op = "reserve" /\ calls[c1].pc = "resolved"
    /\ calls[c2].op = "reserve" /\ calls[c2].pc = "resolved"
    /\ calls[c1].wallet = calls[c2].wallet
    /\ calls[c1].balance = calls[c2].balance
    /\ calls[c1].amount + calls[c2].amount > calls[c1].balance

\* The amounts of the reserveBudget calls that succeeded against `wallet`
\* (the calls that passed the balance check and debited), summed.
RECURSIVE SumReserved(_, _)
SumReserved(cs, wallet) ==
  IF cs = {} THEN 0
  ELSE LET c == CHOOSE x \in cs : TRUE
       IN (IF /\ calls[c].op = "reserve"
              /\ calls[c].pc \in {"reserveUpdated", "resolved"}
              /\ calls[c].wallet = wallet
           THEN calls[c].amount ELSE 0) + SumReserved(cs \ {c}, wallet)

\* C1: for every interleaving of concurrent reserve calls against one wallet,
\* the amounts of the reservations that succeed sum to at most the wallet's
\* starting balance.
C1_ReservedSumWithinStartBalance ==
  \A w \in Wallets : SumReserved(Callers, w) <= startBalance[w]

\* C9: reserve fails when a reservation already exists for the same runId and
\* leaves that reservation and every wallet balance unchanged.
C9_ReserveExistingRunIdFails ==
  [][\A r \in RunIds, w \in Wallets, a \in Amounts :
       (reservations[r].status # "none" /\ LedgerReserve(r, w, a))
         => (~lastCall'.ok /\ UNCHANGED ledgerVars)]_vars

\* The run state machine: queued -> {running, cancelled},
\* running -> {completed, failed, cancelled}; a new run starts queued.
LegalTransition(from, to) ==
  \/ from = to
  \/ from = "none" /\ to = "queued"
  \/ from = "queued" /\ to \in {"running", "cancelled"}
  \/ from = "running" /\ to \in {"completed", "failed", "cancelled"}

\* C3: under any sequence of schedule, next, updateStatus and cancel a run's
\* status changes only along the run state machine; a terminal run never
\* changes status again.
C3_OnlyLegalTransitions ==
  [][\A r \in RunIds : LegalTransition(runs[r].status, runs'[r].status)]_vars

\* C7: BudgetLedger.release is invoked at most once for a run, so the wallet
\* never holds more than it started with.
C7_ReleaseAtMostOncePerRun ==
  /\ \A r \in RunIds : releaseCount[r] <= 1
  /\ \A w \in Wallets : walletBalances[w] <= startBalance[w]

\* C8: once a reservation is released or settled, no later release or settle
\* of it changes its status or any wallet balance, and settle never refunds.
C8_ReleasedSettledAreFinal ==
  [][\A r \in RunIds :
       /\ (/\ reservations[r].status \in {"released", "settled"}
           /\ \/ LedgerSettle(r)
              \/ \E spent \in 0..MaxAmount : LedgerRelease(r, spent))
            => (/\ reservations'[r].status = reservations[r].status
                /\ walletBalances' = walletBalances)
       /\ LedgerSettle(r) => walletBalances' = walletBalances]_vars

\* C16: reserveBudget with balance >= amount debits the wallet by exactly
\* the amount and stores a reserved reservation under runId, changing nothing
\* else; with balance < amount it throws InsufficientBudgetError and changes
\* no balance and no reservation.
C16_ReserveContract ==
  [][\A r \in RunIds, w \in Wallets, a \in Amounts :
       LedgerReserve(r, w, a) =>
         IF walletBalances[w] >= a
           THEN /\ lastCall'.ok
                /\ walletBalances' = [walletBalances EXCEPT ![w] = @ - a]
                /\ reservations' =
                     [reservations EXCEPT ![r] =
                        [status |-> "reserved", userWallet |-> w, amount |-> a]]
           ELSE /\ lastCall'.error = "InsufficientBudgetError"
                /\ UNCHANGED ledgerVars]_vars

\* A reserve call succeeded and its debit shows in the balance.
C16_ReserveSucceeded ==
  /\ lastCall.op = "reserve" /\ lastCall.ok
  /\ \E r \in RunIds :
       /\ reservations[r].status = "reserved"
       /\ walletBalances[reservations[r].userWallet]
            < startBalance[reservations[r].userWallet]

\* C17: releaseBudget(runId, spent) on a reserved reservation with
\* 0 <= spent <= amount adds amount - spent to the reserving wallet, marks the
\* reservation released and changes nothing else; without a reservation under
\* runId it throws and changes nothing.
C17_ReleaseContract ==
  [][\A r \in RunIds, spent \in 0..MaxAmount :
       LedgerRelease(r, spent) =>
         IF reservations[r].status = "none"
           THEN ~lastCall'.ok /\ UNCHANGED ledgerVars
           ELSE (reservations[r].status = "reserved" /\ spent <= reservations[r].amount)
                  => /\ lastCall'.ok
                     /\ walletBalances' =
                          [walletBalances EXCEPT ![reservations[r].userWallet] =
                             @ + reservations[r].amount - spent]
                     /\ reservations' = [reservations EXCEPT ![r].status = "released"]]_vars

\* A release with part of the reservation spent has happened: the only
\* reservation is released and its wallet is below its starting balance.
C17_ReleasedWithSpent ==
  /\ lastCall.op = "release" /\ lastCall.ok
  /\ \E r \in RunIds :
       /\ reservations[r].status = "released"
       /\ \A q \in RunIds \ {r} : reservations[q].status = "none"
       /\ walletBalances[reservations[r].userWallet]
            < startBalance[reservations[r].userWallet]

\* C15: scheduleRun with a wallet balance below maxBudget throws
\* InsufficientBudgetError, stores and enqueues no run, creates no reservation
\* and leaves the balance unchanged.
C15_ScheduleInsufficientBudget ==
  [][\A a \in Amounts :
       (walletBalances[SchedWallet] < a /\ ScheduleRun(SchedWallet, a))
         => /\ lastCall'.error = "InsufficientBudgetError"
            /\ UNCHANGED <<runs, queue, ledgerVars>>]_vars

\* The queue without runId.
Without(q, runId) == LET Other(x) == x # runId IN SelectSeq(q, Other)

C19_CancelTerminalFails ==
  [][\A r \in RunIds :
       (runs[r].status \in {"completed", "failed", "cancelled"} /\ CancelRun(r))
         => /\ ~lastCall'.ok
            /\ UNCHANGED <<runs, queue, ledgerVars>>]_vars

\* cancelRun has just been refused for a run in a terminal status.
C19_CancelRefused ==
  /\ lastCall.op = "cancel" /\ ~lastCall.ok
  /\ lastCall.run \in RunIds
  /\ runs[lastCall.run].status \in {"completed", "failed", "cancelled"}

\* No id occurs twice in the queue.
NoDuplicates(q) == \A i, j \in 1..Len(q) : q[i] = q[j] => i = j

\* C20: a successful scheduleRun stores a new run with status queued under
\* an unused id, debits exactly maxBudget into a reserved reservation and
\* appends the id to the queue; getNextRun returns and removes the oldest id of
\* the queue, or returns nothing when the queue is empty; no id is in the
\* queue twice.
C20_ScheduleThenNextIsFifo ==
  /\ [][/\ \A a \in Amounts :
             (walletBalances[SchedWallet] >= a /\ ScheduleRun(SchedWallet, a))
               => /\ lastCall'.ok
                  /\ runs[lastCall'.run].status = "none"
                  /\ lastCall'.run \notin SeqToSet(queue)
                  /\ runs'[lastCall'.run].status = "queued"
                  /\ runs'[lastCall'.run].reservedBudget = a
                  /\ walletBalances' = [walletBalances EXCEPT ![SchedWallet] = @ - a]
                  /\ reservations'[lastCall'.run] =
                       [status |-> "reserved", userWallet |-> SchedWallet, amount |-> a]
                  /\ queue' = Append(queue, lastCall'.run)
        /\ GetNextRun
             => IF Len(queue) = 0
                  THEN lastCall'.run = "" /\ queue' = queue
                  ELSE lastCall'.run = Head(queue) /\ queue' = Tail(queue)]_vars
  /\ [](NoDuplicates(queue))

\* With two runs queued, getNextRun returned one and left the other.
C20_NextReturnedOldest ==
  /\ lastCall.op = "next" /\ lastCall.run # ""
  /\ Len(queue) >= 1

\* C21: startedAt is set exactly when a run first goes from queued to
\* running and endedAt exactly when it first enters a terminal status; neither
\* changes afterwards, and a run that is not terminal has no endedAt.
C21_TimestampsFollowTransitions ==
  /\ [][\A r \in RunIds :
          runs[r].status # "none" =>
            /\ runs'[r].startedAt # runs[r].startedAt
                 <=> (/\ runs[r].status = "queued"
                      /\ runs'[r].status = "running"
                      /\ runs[r].startedAt = 0)
            /\ runs'[r].endedAt # runs[r].endedAt
                 <=> (/\ runs[r].status \notin {"completed", "failed", "cancelled"}
                      /\ runs'[r].status \in {"completed", "failed", "cancelled"}
                      /\ runs[r].endedAt = 0)]_vars
  /\ [](\A r \in RunIds :
          runs[r].status \in {"queued", "running"} => runs[r].endedAt = 0)

\* C38: each run id is in the queue at most once, and every run id in the
\* queue is that of a stored run whose status is queued.
C38_QueueHoldsQueuedRuns ==
  /\ NoDuplicates(queue)
  /\ \A i \in 1..Len(queue) : runs[queue[i]].status = "queued"

(***************************************************************************)
(* ValidSpec: validate and getExecutionOrder applied to every spec of at   *)
(* most MaxNodes nodes (ids may repeat) and MaxEdges distinct edges, the   *)
(* agents all published.                                                   *)
(***************************************************************************)
MaxNodes == 3
MaxEdges == 3

\* All pairs of node ids, in a fixed order.
PairSeq ==
  <<[from |-> "a", to |-> "a"], [from |-> "a", to |-> "b"], [from |-> "a", to |-> "c"],
    [from |-> "b", to |-> "a"], [from |-> "b", to |-> "b"], [from |-> "b", to |-> "c"],
    [from |-> "c", to |-> "a"], [from |-> "c", to |-> "b"], [from |-> "c", to |-> "c"]>>

\* The edges of PairSeq picked by the index set `pick`, in PairSeq's order.
EdgeSeq(pick) ==
  LET Picked(e) == \E i \in pick : PairSeq[i] = e
  IN SelectSeq(PairSeq, Picked)

NodeSeqs == UNION {[1..n -> NodeIds] : n \in 1..MaxNodes}
EdgePicks == {pick \in SUBSET (1..Len(PairSeq)) : Cardinality(pick) <= MaxEdges}

Workflows ==
  {[name |-> "wf",
    nodes |-> [i \in 1..Len(ids) |-> AgentNode(ids[i], "echo", 0)],
    edges |-> EdgeSeq(pick), entryNodeId |-> entry, maxBudget |-> budget,
    chain |-> Chain, token |-> Token] :
     ids \in NodeSeqs, pick \in EdgePicks, entry \in NodeIds, budget \in 0..1}

ValidInit ==
  /\ wf \in Workflows
  /\ agents = PublishedRegistry
  /\ validation = NotValidated
  /\ ordering = NotOrdered
  /\ walletBalances = [w \in Wallets |-> 0]
  /\ FreshServices
  /\ EngineIdle
  /\ PayIdle

ValidNext == DoValidate \/ DoOrder

ValidSpec == ValidInit /\ [][ValidNext]_vars

\* The graph has a directed cycle: some node reaches itself along edges.
RECURSIVE ReachFrom(_, _)
ReachFrom(edges, frontier) ==
  LET next == frontier \cup {edges[i].to : i \in {j \in 1..Len(edges) : edges[j].from \in frontier}}
  IN IF next = frontier THEN frontier ELSE ReachFrom(edges, next)

HasCycle(spec) ==
  \E i \in 1..Len(spec.edges) :
    spec.edges[i].from \in ReachFrom(spec.edges, {spec.edges[i].to})

\* C5: validate rejects every spec whose edges contain a directed cycle.
C5_CyclicSpecRejected ==
  (validation.status # "pending" /\ HasCycle(wf)) => validation.status = "error"

\* C6: for every spec validate accepts, getExecutionOrder succeeds and its
\* order holds every node of the spec exactly once.
C6_AcceptedSpecIsOrdered ==
  (validation.status = "ok" /\ ordering.status # "pending")
    => /\ ordering.status = "ok"
       /\ Len(ordering.order) = Len(wf.nodes)
       /\ \A i \in 1..Len(wf.nodes) :
            Cardinality({j \in 1..Len(ordering.order) :
                           ordering.order[j] = wf.nodes[i].id}) = 1

\* Some edge of the spec starts or ends at an id that is no node of the spec.
HasDanglingEdge(spec) ==
  \E i \in 1..Len(spec.edges) :
    \/ ~HasNode(spec, spec.edges[i].from)
    \/ ~HasNode(spec, spec.edges[i].to)

\* Some node of the spec cannot be reached from the entry node along edges.
HasUnreachableNode(spec) ==
  \E i \in 1..Len(spec.nodes) :
    spec.nodes[i].id \notin ReachFrom(spec.edges, {spec.entryNodeId})

\* C24: validate rejects every spec with an edge whose source or destination
\* is no node of the spec, and every spec with a node that is not reachable
\* from the entry node.
C24_DanglingOrUnreachableRejected ==
  (validation.status # "pending" /\ (HasDanglingEdge(wf) \/ HasUnreachableNode(wf)))
    => validation.status = "error"

\* validate rejected a spec whose only defect is an unreachable node.
C24_RejectedForUnreachableNode ==
  /\ validation.status = "error"
  /\ wf.maxBudget > 0
  /\ HasNode(wf, wf.entryNodeId)
  /\ ~HasDanglingEdge(wf)
  /\ HasUnreachableNode(wf)

(***************************************************************************)
(* RefSpec: validate applied to specs a -> b whose nodes name agent "echo", *)
(* the unregistered "upper" or no agent at all, against registries holding *)
(* "echo" in any status, supporting the spec's chain and token or others.  *)
(***************************************************************************)
RefRegistries ==
  {[PublishedRegistry EXCEPT
      !["upper"] = NoAgent,
      !["echo"].status = st,
      !["echo"].supportedChains = chains,
      !["echo"].supportedTokens = tokens] :
     st \in AgentStatuses,
     chains \in {{Chain}, {"solana"}}, tokens \in {{Token}, {"SOL"}}}

RefWorkflows ==
  {[name |-> "wf",
    nodes |-> <<AgentNode("a", refA, 0), AgentNode("b", refB, 0)>>,
    edges |-> <<[from |-> "a", to |-> "b"]>>, entryNodeId |-> "a",
    maxBudget |-> 1, chain |-> Chain, token |-> Token] :
     refA \in AgentRefs \cup {""}, refB \in AgentRefs \cup {""}}

RefInit ==
  /\ wf \in RefWorkflows
  /\ agents \in RefRegistries
  /\ validation = NotValidated
  /\ ordering = NotOrdered
  /\ walletBalances = [w \in Wallets |-> 0]
  /\ FreshServices
  /\ EngineIdle
  /\ PayIdle

RefSpec == RefInit /\ [][ValidNext]_vars

\* C23: in a spec validate accepts, every node of type agent names an agent
\* that is in the registry, is published and supports the spec's chain and
\* token; in particular no agent node is without an agent reference.
C23_AcceptedAgentNodesResolve ==
  validation.status = "ok"
    => \A i \in 1..Len(wf.nodes) :
         wf.nodes[i].type = "agent"
           => /\ wf.nodes[i].agentRef # ""
              /\ Lookup(agents, wf.nodes[i].agentRef).status = "published"
              /\ wf.chain \in Lookup(agents, wf.nodes[i].agentRef).supportedChains
              /\ wf.token \in Lookup(agents, wf.nodes[i].agentRef).supportedTokens

(***************************************************************************)
(* RegistrySpec: create, update, publish, deprecate and delete on a fresh  *)
(* registry.                                                               *)
(***************************************************************************)
RegistryInit ==
  /\ walletBalances = [w \in Wallets |-> 0]
  /\ FreshServices
  /\ agents = [ref \in AgentRefs |-> NoAgent]
  /\ wf = NoWorkflow
  /\ validation = NotValidated
  /\ ordering = NotOrdered
  /\ EngineIdle
  /\ PayIdle

RegistryNext ==
  \/ \E agent \in AgentInputs : CreateAgent(agent)
  \/ \E ref \in AgentRefs, updates \in AgentUpdates : UpdateAgent(ref, updates)
  \/ \E ref \in AgentRefs : PublishAgent(ref)
  \/ \E ref \in AgentRefs : DeprecateAgent(ref)
  \/ \E ref \in AgentRefs : DeleteAgent(ref)

RegistrySpec == RegistryInit /\ [][RegistryNext]_vars

\* A descriptor with an endpoint URL, a supported chain and a supported token.
Complete(agent) ==
  agent.endpointUrl /\ agent.supportedChains # {} /\ agent.supportedTokens # {}

\* C31: every stored agent with status published has an endpoint URL and
\* non-empty supported chains and tokens; a publish or update whose result
\* would be a published agent lacking one of them fails and leaves the
\* registry unchanged.
C31_PublishedAgentsComplete ==
  /\ [](\A ref \in AgentRefs :
          agents[ref].status = "published" => Complete(agents[ref]))
  /\ [][\A ref \in AgentRefs, updates \in AgentUpdates :
          LET result == Spread(agents[ref], updates)
              published == [agents[ref] EXCEPT !.status = "published"]
          IN /\ (/\ agents[ref].status # "none"
                 /\ result.status = "published" /\ ~Complete(result)
                 /\ UpdateAgent(ref, updates))
                  => ~lastCall'.ok /\ UNCHANGED agents
             /\ (/\ agents[ref].status # "none"
                 /\ ~Complete(published)
                 /\ PublishAgent(ref))
                  => ~lastCall'.ok /\ UNCHANGED agents]_vars

\* C32: update never changes an agent's reference, whatever the patch holds:
\* after a successful updateAgent(ref, updates) the stored (and returned)
\* descriptor has ref equal to ref, and in every registry state each agent
\* is stored under a key equal to its own ref.
C32_UpdateKeepsRef ==
  /\ [](\A ref \in AgentRefs : agents[ref].status # "none" => agents[ref].ref = ref)
  /\ [][\A ref \in AgentRefs, updates \in AgentUpdates :
          (UpdateAgent(ref, updates) /\ lastCall'.ok) => agents'[ref].ref = ref]_vars

\* An update succeeded on an agent next to another registered agent, whose
\* ref a patch may name.
C32_UpdatedAmongOthers ==
  /\ lastCall.op = "update" /\ lastCall.ok
  /\ \A ref \in AgentRefs : agents[ref].status # "none" /\ agents[ref].ref = ref
  /\ agents[lastCall.run].status = "suspended"

\* C33: create of a fresh ref stores the descriptor in status draft whatever
\* status it carries (a descriptor that is a valid draft is stored); create
\* of a registered ref fails and leaves the registry unchanged.
C33_CreateStoresDraft ==
  [][\A agent \in AgentInputs :
       LET draft == [agent EXCEPT !.status = "draft"]
       IN CreateAgent(agent) =>
            IF agents[agent.ref].status # "none"
              THEN ~lastCall'.ok /\ UNCHANGED agents
            ELSE IF agent.supportedChains # {} /\ agent.supportedTokens # {}
              THEN lastCall'.ok /\ agents' = [agents EXCEPT ![agent.ref] = draft]
            ELSE ~lastCall'.ok /\ UNCHANGED agents]_vars

\* The status changes of a stored agent the registry may make.
AgentTransitions ==
  {<<"draft", "published">>, <<"published", "deprecated">>}
    \cup {<<st, "suspended">> : st \in {"draft", "published", "deprecated"}}

\* C30: the status of a stored agent changes only along draft -> published,
\* published -> deprecated or any -> suspended; an agent leaves the registry
\* only from status draft, and delete on any other agent throws and leaves
\* the registry unchanged.
C30_AgentStatusTransitions ==
  [][\A ref \in AgentRefs :
       /\ (agents[ref].status # "none" /\ agents'[ref].status # agents[ref].status)
            => IF agents'[ref].status = "none"
                 THEN agents[ref].status = "draft"
                 ELSE <<agents[ref].status, agents'[ref].status>> \in AgentTransitions
       /\ (agents[ref].status \notin {"none", "draft"} /\ DeleteAgent(ref))
            => ~lastCall'.ok /\ UNCHANGED agents]_vars

(***************************************************************************)
(* EngineSpec: one accepted spec is scheduled and executed while the       *)
(* scheduler may cancel runs; every agent invocation returns or raises.    *)
(***************************************************************************)
EngineNodeIds == {"a", "b"}
MaxEngineNodes == 2

EngineNodeSeqs == UNION {[1..n -> EngineNodeIds] : n \in 1..MaxEngineNodes}

EnginePicks ==
  SUBSET {i \in 1..Len(PairSeq) :
            PairSeq[i].from \in EngineNodeIds /\ PairSeq[i].to \in EngineNodeIds}

\* Node a calls the free agent, node b either agent.
EngineAgentOf == {[a |-> "echo", b |-> ref] : ref \in AgentRefs}

EngineWorkflows ==
  {w \in {[name |-> "wf",
           nodes |-> [i \in 1..Len(ids) |->
                        AgentNode(ids[i], agentOf[ids[i]], retry[ids[i]])],
           edges |-> EdgeSeq(pick), entryNodeId |-> entry, maxBudget |-> 1,
           chain |-> Chain, token |-> Token] :
            ids \in EngineNodeSeqs, pick \in EnginePicks, entry \in EngineNodeIds,
            retry \in [EngineNodeIds -> 0..MaxAttempts],
            agentOf \in EngineAgentOf} :
     Validate(w, PaywalledRegistry)}

\* The caller has validated the spec; the wallet that schedules is funded.
EngineInit ==
  /\ walletBalances \in [Wallets -> 0..MaxBalance]
  /\ \A w \in Wallets \ {SchedWallet} : walletBalances[w] = 0
  /\ FreshServices
  /\ agents = PaywalledRegistry
  /\ wf \in EngineWorkflows
  /\ validation = [status |-> "ok", warned |-> DetectCycles(wf)]
  /\ ordering = NotOrdered
  /\ EngineIdle
  /\ PayIdle

EngineNext ==
  \/ ScheduleRun(SchedWallet, wf.maxBudget)
  \/ \E r \in RunIds : ExecuteRun(r)
  \/ GetAgentResume
  \/ AgentReturns
  \/ \E kind \in ErrorKinds : AgentRaises(kind)
  \/ BackoffResume
  \/ \E r \in RunIds : CancelRun(r)

EngineSpec == EngineInit /\ [][EngineNext]_vars

\* C2: executeRun ends with its run completed or failed, and a node is
\* invoked at most once plus the maxAttempts retries of its retry policy.
C2_ExecuteEndsWithBoundedRetries ==
  /\ exec.pc \in {"returned", "thrown"} => heldRun.status \in {"completed", "failed"}
  /\ \A n \in NodeIds :
       HasNode(wf, n) => invocations[n] <= FindNode(wf, n).maxAttempts + 1

\* C10: once the scheduler's record of the executing run is terminal, the
\* engine starts no further node of the order.
C10_NoNodeStartedOnceTerminal ==
  [][(exec.pc # "idle" /\ IsTerminal(runs[exec.runId].status))
       => ~(exec'.pc = "getAgent" /\ exec'.pos > exec.pos)]_vars

\* C11: when executeRun has finished, completed or failed, the reservation of
\* its run has been released.
C11_ReservationReleasedAtEnd ==
  exec.pc \in {"returned", "thrown"} => reservations[exec.runId].status = "released"

\* No order of the spec's nodes has every node once: the spec has a cycle
\* or lists a node id twice.
NoFullOrder(spec) ==
  HasCycle(spec) \/ Cardinality(SeqToSet(IdsOf(spec.nodes))) < Len(spec.nodes)

\* C37: for a spec whose computed order is shorter than its node count,
\* executeRun throws an ExecutionError with the run it was handed marked
\* failed and endedAt set (so is the scheduler's record while it is that
\* object), and no agent is invoked at any time.
C37_CycleFailsBeforeAnyNode ==
  NoFullOrder(wf) =>
    /\ \A n \in NodeIds : invocations[n] = 0 /\ context[n] = 0
    /\ exec.pc \in {"idle", "thrown"}
    /\ exec.pc = "thrown" =>
         /\ heldRun.status = "failed" /\ heldRun.error = "ExecutionError"
         /\ heldRun.endedAt > 0
         /\ runs[exec.runId].original =>
              runs[exec.runId].status = "failed" /\ runs[exec.runId].endedAt > 0

\* executeRun has thrown for a spec with a cycle.
C37_CyclicRunFailed ==
  HasCycle(wf) /\ exec.pc = "thrown" /\ heldRun.status = "failed"

\* executeNode is running for the node at exec.pos.
InNode == exec.pc \in {"getAgent", "calling", "backoff"}

\* C25: for an acyclic workflow, a node is invoked only after every node
\* with an edge into it has completed and written its output to the context;
\* a run that returned has completed every node of the spec, each at one
\* position of the order, and when every invocation was the node's first
\* (none failed) every node was invoked exactly once.
C25_VisitOrderIsTopological ==
  ~HasCycle(wf) =>
    /\ InNode =>
         \A i \in 1..Len(wf.edges) :
           wf.edges[i].to = exec.order[exec.pos] => context[wf.edges[i].from] # 0
    /\ exec.pc = "returned" =>
         /\ \A i \in 1..Len(wf.nodes) :
              /\ context[wf.nodes[i].id] # 0
              /\ Cardinality({j \in 1..Len(exec.order) :
                                exec.order[j] = wf.nodes[i].id}) = 1
         /\ (\A i \in 1..Len(wf.nodes) : context[wf.nodes[i].id] = 1)
              => \A n \in NodeIds :
                   invocations[n] = IF HasNode(wf, n) THEN 1 ELSE 0

\* A node with an incoming edge is being invoked after its predecessor
\* completed.
C25_DownstreamNodeInvoked ==
  /\ ~HasCycle(wf)
  /\ exec.pc = "calling"
  /\ \E i \in 1..Len(wf.edges) :
       /\ wf.edges[i].to = exec.order[exec.pos]
       /\ context[wf.edges[i].from] # 0

\* C26: when an invocation fails and the node has used up its retries (it
\* was invoked once plus maxAttempts times), the run is marked failed with
\* that error and an endedAt, the context is left as it was, and once
\* executeRun has thrown no further invocation is made.
C26_ExhaustedNodeFailsRun ==
  [][/\ \A kind \in ErrorKinds :
          (/\ AgentRaises(kind)
           /\ invocations[exec.order[exec.pos]]
                >= FindNode(wf, exec.order[exec.pos]).maxAttempts + 1)
            => /\ exec'.pc = "thrown"
               /\ heldRun'.status = "failed"
               /\ heldRun'.error = kind
               /\ heldRun'.endedAt # 0
               /\ context' = context
     /\ exec.pc = "thrown" => UNCHANGED <<exec, context, invocations>>]_vars

\* C27: when every node succeeded and executeRun returned, the run is
\* marked completed, its output is the context entry of the last node of the
\* order, and the context holds for each node of the spec the output of its
\* successful invocation (its last one) and nothing for other ids.
C27_CompletedRunOutput ==
  exec.pc = "returned" =>
    /\ heldRun.status = "completed"
    /\ heldRun.endedAt # 0
    /\ heldRun.output = context[exec.order[Len(exec.order)]]
    /\ \A n \in NodeIds :
         context[n] = IF HasNode(wf, n) THEN invocations[n] ELSE 0

\* A run of two nodes returned and its nodes stored different outputs.
C27_TwoNodeRunCompleted ==
  /\ exec.pc = "returned"
  /\ Len(exec.order) = 2
  /\ context[exec.order[1]] # context[exec.order[2]]

\* The costs of the nodes the run has completed so far, summed.
RECURSIVE SumCosts(_)
SumCosts(ns) ==
  IF ns = {} THEN 0
  ELSE LET n == CHOOSE x \in ns : TRUE IN NodeCost(n) + SumCosts(ns \ {n})

\* C22: at every point of a run, the costs charged for the nodes it has
\* executed sum to at most its reserved budget.
C22_SpentWithinReserved ==
  exec.runId \in RunIds
    => SumCosts({n \in NodeIds : HasNode(wf, n) /\ context[n] # 0})
         <= runs[exec.runId].reservedBudget

\* The node the engine is executing calls an agent that requires payment.
AtPaywalledNode ==
  /\ exec.pos \in 1..Len(exec.order)
  /\ HasNode(wf, exec.order[exec.pos])
  /\ exec.agent.requiresPayment

\* C12: a payment challenge of an agent that requires payment is paid and
\* the call retried instead of failing the node, and a run that completed past
\* such a node has made a transfer.
C12_PaywalledAgentIsPaid ==
  /\ (exec.pc = "thrown" /\ AtPaywalledNode) => heldRun.error # "PaymentRequired"
  /\ (exec.pc = "returned" /\ \E i \in 1..Len(exec.order) :
          Lookup(agents, FindNode(wf, exec.order[i]).agentRef).requiresPayment)
       => chain.transfers >= 1

\* C14: a payment challenge or another 4xx answer fails the node at once,
\* whatever its retry policy; it is never followed by a backoff and a retry.
C14_ClientErrorsNotRetried ==
  [][\A kind \in {"PaymentRequired", "ClientError"} :
       AgentRaises(kind) => exec'.pc = "thrown"]_vars

(***************************************************************************)
(* MiddlewareSpec: the executor of agent "upper", wrapped in the payment   *)
(* middleware, is handed one message.                                      *)
(***************************************************************************)
MiddlewareInit ==
  /\ walletBalances = [w \in Wallets |-> 0]
  /\ FreshServices
  /\ agents \in {PublishedRegistry, PaywalledRegistry}
  /\ wf = NoWorkflow
  /\ validation = NotValidated
  /\ ordering = NotOrdered
  /\ EngineIdle
  /\ PayIdle

MiddlewareNext ==
  \/ \E input \in Messages : MiddlewareExecute(input)
  \/ DelegateReturns

MiddlewareSpec == MiddlewareInit /\ [][MiddlewareNext]_vars

\* C13: the agent logic of an agent that requires payment is run only for a
\* message whose payment proof passes verification: right network, paid to
\* the merchant, value at least the price, valid now, signed by the payer.
C13_LogicRunsOnlyForVerifiedPayment ==
  (mw.pc \in {"delegate", "returned"} /\ agents["upper"].requiresPayment)
    => /\ mw.message.paymentProof.present
       /\ VerifyPayment(mw.message.paymentProof,
                        GetPaymentRequirements(agents["upper"]), clock).valid

(***************************************************************************)
(* PaySpec: one node is executed by the payment-enabled executor against   *)
(* an agent that may answer every request with a result, an error, a 402   *)
(* challenge or not at all.                                                *)
(***************************************************************************)
MaxPayAttempts == 2
MaxChainBalance == 3

PayConfigs ==
  [retryMax : 0..MaxPayAttempts, wallet : BOOLEAN, cap : 1..MaxAmount]

PayInit ==
  /\ walletBalances = [w \in Wallets |-> 0]
  /\ FreshServices
  /\ agents = PublishedRegistry
  /\ wf = NoWorkflow
  /\ validation = NotValidated
  /\ ordering = NotOrdered
  /\ EngineIdle
  /\ \E config \in PayConfigs : pay = IdlePay(config)
  /\ chain \in [balance : 0..MaxChainBalance, transfers : {0}]
  /\ sends = NoSends

PayNext ==
  \/ PayExecuteNode
  \/ \E kind \in {"result", "error", "challenge", "raise"}, amount \in Amounts :
       UnpaidResponds(kind, amount)
  \/ \E ok \in BOOLEAN : SignResume(ok)
  \/ BalanceResume
  \/ \E ok \in BOOLEAN : TransferResume(ok)
  \/ \E ok \in BOOLEAN : ReceiptResume(ok)
  \/ \E kind \in {"result", "error", "raise"} : PaidResponds(kind)
  \/ PayBackoffResume

PaySpec == PayInit /\ [][PayNext]_vars

\* C4: over all attempts of the node at most one transfer is executed.
C4_AtMostOneTransferPerNode == chain.transfers <= 1

\* The steps one sendMessage call can take from one await to the next.
CallSteps ==
  {<<"unpaidSent", "signing">>, <<"signing", "balanceOf">>,
   <<"balanceOf", "transfer">>, <<"transfer", "wait">>, <<"wait", "paidSent">>}

\* sendMessage has returned or thrown into executeNode.
CallEnded(p) == p.pc \in {"done", "failed", "backoff"}

\* C28: a sendMessage call starts with the unpaid request; a response that is
\* no payment challenge ends the call with nothing signed, transferred or
\* sent again; otherwise the call goes once through signing, balance check,
\* transfer and confirmation, and the one request sent again is sent at the
\* confirmation of the one transfer, carrying the payment metadata; its
\* response ends the call.
C28_PayOnceThenRetryOnce ==
  [][/\ sends'.unpaid # sends.unpaid
          => /\ pay.pc \in {"idle", "backoff"}
             /\ pay'.pc = "unpaidSent"
             /\ sends' = [sends EXCEPT !.unpaid = @ + 1]
             /\ pay'.metadata = {}
             /\ chain' = chain
     /\ \A kind \in {"result", "error", "raise"}, amount \in Amounts :
          UnpaidResponds(kind, amount)
            => CallEnded(pay') /\ UNCHANGED <<sends, chain>>
     /\ (pay'.pc # pay.pc /\ ~CallEnded(pay') /\ pay'.pc # "unpaidSent")
          => <<pay.pc, pay'.pc>> \in CallSteps
     /\ (chain' # chain \/ sends'.paid # sends.paid)
          => /\ pay.pc = "wait" /\ pay'.pc = "paidSent"
             /\ chain' = [balance |-> chain.balance - pay.amount,
                          transfers |-> chain.transfers + 1]
             /\ sends' = [sends EXCEPT !.paid = @ + 1]
             /\ pay'.metadata = PaymentMetadata
     /\ sends'.signed # sends.signed
          => pay.pc = "signing" /\ sends'.signed = sends.signed + 1
     /\ pay.pc = "paidSent" => CallEnded(pay')]_vars

\* The paid request of a call is in flight after the call's one transfer.
C28_PaidRequestSent ==
  /\ pay.pc = "paidSent"
  /\ sends.unpaid = 1 /\ sends.signed = 1 /\ sends.paid = 1
  /\ chain.transfers = 1

\* C29: a challenge above the per-call cap, or any challenge when no wallet
\* is configured, makes sendMessage throw with nothing signed, nothing
\* transferred and no request sent again; without a wallet that never happens.
C29_UnpayableChallengeFails ==
  /\ [][\A amount \in Amounts :
          (/\ UnpaidResponds("challenge", amount)
           /\ (amount > pay.config.cap \/ ~pay.config.wallet))
            => /\ pay'.pc \in {"failed", "backoff"}
               /\ UNCHANGED <<sends, chain>>]_vars
  /\ [](~pay.config.wallet
          => sends.signed = 0 /\ sends.paid = 0 /\ chain.transfers = 0)

\* A challenge above the cap was answered by failing the node.
C29_ChallengeRefused ==
  /\ pay.pc = "failed"
  /\ pay.config.wallet /\ pay.amount > pay.config.cap
  /\ sends.unpaid = 1 /\ sends.signed = 0 /\ sends.paid = 0
  /\ chain.transfers = 0

(***************************************************************************)
(* ResolveSpec: resolve applied to strings of up to three pieces and to a  *)
(* number, against contexts that hold "a" and "input" as a number, null,   *)
(* a mapping with or without the field "m", or not at all.                 *)
(***************************************************************************)
PathSegments == {"a", "input", "m"}
Paths == {<<x>> : x \in PathSegments} \cup {<<x, y>> : x, y \in PathSegments}
Pieces == {TextOf(t) : t \in {"x-", "-y"}} \cup {TokenOf(path) : path \in Paths}

Templates ==
  {Num(7)}
    \cup {Str(<<x>>) : x \in Pieces}
    \cup {Str(<<x, y>>) : x, y \in Pieces}
    \cup {Str(<<TextOf("x-"), TokenOf(path), TextOf("-y")>>) : path \in Paths}

ContextValues ==
  {Num(7), Null, Obj(<<>>), Obj([k \in {"m"} |-> Str(<<TextOf("hi")>>)])}

Contexts ==
  {Obj(fields) : fields \in UNION {[keys -> ContextValues] :
                                     keys \in SUBSET {"a", "input"}}}

ResolveInit ==
  /\ walletBalances = [w \in Wallets |-> 0]
  /\ CoreServices
  /\ agents = [ref \in AgentRefs |-> NoAgent]
  /\ wf = NoWorkflow
  /\ validation = NotValidated
  /\ ordering = NotOrdered
  /\ EngineIdle
  /\ PayIdle
  /\ tr \in [pc : {"idle"}, template : Templates, context : Contexts,
             result : {Undefined}]
  /\ extraction = NoExtraction
  /\ EmptyCache
  /\ parsing = NotParsed

ResolveNext == DoResolve

ResolveSpec == ResolveInit /\ [][ResolveNext]_vars

\* A segment of the path is missing from the context: walking the path from
\* the context, some segment is no key of the mapping reached (or what was
\* reached is no mapping at all).
RECURSIVE MissingFrom(_, _, _)
MissingFrom(current, path, i) ==
  /\ i <= Len(path)
  /\ \/ current.kind # "map"
     \/ path[i] \notin DOMAIN current.fields
     \/ MissingFrom(current.fields[path[i]], path, i + 1)

\* C34: once resolve has returned for a string, every token whose path has
\* a missing segment stands untouched at its place in the returned string,
\* both among other pieces and when it is the whole string.
C34_MissingTokenUntouched ==
  (tr.pc = "done" /\ tr.template.kind = "string") =>
    \A i \in 1..Len(tr.template.parts) :
      LET piece == tr.template.parts[i]
      IN (piece.kind = "token" /\ MissingFrom(tr.context, piece.path, 1)) =>
           /\ tr.result.kind = "string"
           /\ \E j \in 1..Len(tr.result.parts) : tr.result.parts[j] = piece
           /\ Len(tr.template.parts) = 1 => tr.result = tr.template

(***************************************************************************)
(* ExtractSpec: extractPaymentRequirements applied to the error objects a  *)
(* response may carry.                                                     *)
(***************************************************************************)
ErrorCodes == {402, -32603}

InnerErrors ==
  {NoInnerError}
    \cup [present : {TRUE}, code : ErrorCodes,
          data : {NoData, [present |-> TRUE, hasAccepts |-> TRUE,
                           accepts |-> <<"req2">>]}]

ErrorObjects ==
  [code : ErrorCodes, message : MessageTexts, data : DataValues,
   details : {NoData, [present |-> TRUE, hasAccepts |-> TRUE,
                       accepts |-> <<"req2">>]},
   error : InnerErrors]

ExtractInit ==
  /\ walletBalances = [w \in Wallets |-> 0]
  /\ CoreServices
  /\ agents = [ref \in AgentRefs |-> NoAgent]
  /\ wf = NoWorkflow
  /\ validation = NotValidated
  /\ ordering = NotOrdered
  /\ EngineIdle
  /\ PayIdle
  /\ tr = IdleResolver
  /\ EmptyCache
  /\ parsing = NotParsed
  /\ extraction \in [pc : {"idle"}, error : ErrorObjects, result : {"null"}]

ExtractNext == DoExtract

ExtractSpec == ExtractInit /\ [][ExtractNext]_vars

\* C35: an error with code 402 and a non-empty data.accepts list is a
\* challenge whose requirement is accepts[0], whatever its message; an error
\* with neither code 402 nor a data.accepts list is no challenge.
C35_ChallengeRecognisedByCodeAndAccepts ==
  extraction.pc = "done" =>
    LET error == extraction.error
        accepts == error.data.accepts
    IN /\ (error.code = 402 /\ error.data.hasAccepts /\ Len(accepts) > 0)
            => extraction.result = accepts[1]
       /\ (error.code # 402 /\ ~error.data.hasAccepts)
            => ~IsChallenge(extraction.result)

(***************************************************************************)
(* CacheSpec: getClient calls of several callers for two endpoints,        *)
(* interleaved at the await, and clearCache.                               *)
(***************************************************************************)
CacheInit ==
  /\ walletBalances = [w \in Wallets |-> 0]
  /\ FreshServices
  /\ agents = [ref \in AgentRefs |-> NoAgent]
  /\ wf = NoWorkflow
  /\ validation = NotValidated
  /\ ordering = NotOrdered
  /\ EngineIdle
  /\ PayIdle

CacheNext ==
  \/ \E c \in Callers, cardUrl \in CardUrls : GetClient(c, cardUrl)
  \/ \E c \in Callers : FetchResolves(c)
  \/ \E c \in Callers : FetchRejects(c)
  \/ \E c \in Callers : ClientCallEnds(c)
  \/ ClearCache

CacheSpec == CacheInit /\ [][CacheNext]_vars

\* C36: a cached client is replaced by nothing but clearCache, every
\* getClient for a cached endpoint returns the cached client, and a failed
\* fetch leaves the cache as it is.
C36_FirstWriterWins ==
  [][\A cardUrl \in CardUrls :
       /\ (clients[cardUrl] # 0 /\ ~ClearCache)
            => clients'[cardUrl] = clients[cardUrl]
       /\ \A c \in Callers :
            /\ (clients[cardUrl] # 0 /\ GetClient(c, cardUrl))
                 => clientCalls'[c].client = clients[cardUrl]
            /\ FetchRejects(c) => UNCHANGED clients]_vars

(***************************************************************************)
(* ParserSpec: WorkflowParser.validate applied to every workflow of at     *)
(* most MaxNodes nodes (ids may repeat) and MaxEdges distinct edges, and   *)
(* the executors' topologicalSort applied to those it accepts.             *)
(***************************************************************************)
ParserInit ==
  /\ wf \in {w \in Workflows : w.entryNodeId = "a"}
  /\ agents = PublishedRegistry
  /\ validation = NotValidated
  /\ ordering = NotOrdered
  /\ walletBalances = [w \in Wallets |-> 0]
  /\ FreshServices
  /\ EngineIdle
  /\ PayIdle

ParserNext == DoParse \/ RegistrySort \/ PaymentSort

ParserSpec == ParserInit /\ [][ParserNext]_vars

\* The order holds every node of the spec exactly once, and every edge goes
\* from an earlier to a later position.
IsTopologicalOrder(order, spec) ==
  /\ Len(order) = Len(spec.nodes)
  /\ \A i \in 1..Len(spec.nodes) :
       Cardinality({j \in 1..Len(order) : order[j] = spec.nodes[i].id}) = 1
  /\ \A e \in 1..Len(spec.edges) :
       \E i, j \in 1..Len(order) :
         i < j /\ order[i] = spec.edges[e].from /\ order[j] = spec.edges[e].to

\* C40: for every workflow WorkflowParser.validate accepts, the
\* topologicalSort of either executor returns without a cycle error, and
\* its order holds every node exactly once with every edge going forward.
C40_AcceptedWorkflowIsSorted ==
  parsing.accepted = "ok" =>
    \A sorted \in {parsing.registryOrder, parsing.paymentOrder} :
      sorted.status # "pending" =>
        sorted.status = "ok" /\ IsTopologicalOrder(sorted.order, wf)

\* Both executors have ordered an accepted workflow of three nodes in which
\* a node is reached over two paths.
C40_DiamondSorted ==
  /\ parsing.accepted = "ok"
  /\ parsing.registryOrder.status = "ok" /\ parsing.paymentOrder.status = "ok"
  /\ Len(wf.nodes) = 3 /\ Len(wf.edges) = 3

====
